---- MODULE Spec2Model ----
(***************************************************************************)
(* Model of ts-api-client-generator: the request-file parsing layer       *)
(* (parseProvidedFile and its three extractors) and the response type     *)
(* inference engine (generateResponseType).                               *)
(*                                                                         *)
(* A JavaScript string is a sequence of one-character strings.  A         *)
(* JavaScript value is a tagged record: [t |-> "undefined"],              *)
(* [t |-> "null"], [t |-> "bool", b], [t |-> "num", n], [t |-> "str", s], *)
(* [t |-> "arr", items], [t |-> "obj", fields] where fields is the        *)
(* sequence of <<key, value>> pairs in the object's own iteration order.  *)
(***************************************************************************)
EXTENDS Integers, Sequences, FiniteSets, TLC

VARIABLES
    pc,          \* position of the invocation in progress
    filePath,    \* parseProvidedFile: the path argument
    fileOnDisk,  \* parseProvidedFile: what fs.readFile yields for filePath
    content,     \* parseProvidedFile: the content read (Undef before the read)
    contentRead, \* parseProvidedFile: fs.readFile has completed
    inspected,   \* parseProvidedFile: an extractor has looked at the content
    result,      \* parseProvidedFile: the settled promise
    restCallResponse, \* generateResponseType: the response argument
    rootName,    \* generateResponseType: the rootName argument
    interfaceMap, \* generateResponseType: its InterfaceMap, in Object.values order
    output,      \* generateResponseType: the returned string or the thrown error
    calls,       \* generateResponseType: the invocations that went before
    callParameters, \* callSuppliedApi: the parameters argument
    network,     \* callSuppliedApi: what the request meets on its way
    requestsIssued, \* callSuppliedApi: the number of calls of axios
    callResult,  \* callSuppliedApi: the settled promise
    programArguments, \* validateProgramArguments: its three arguments
    fileSystem,  \* validateProgramArguments: what fs finds at filePath
    validationResults, \* validateProgramArguments: the four results
    validationOutcome, \* validateProgramArguments: returned or the error thrown
    textToConvert, \* convertToPascalCase: the inputString argument
    pascalCase,  \* convertToPascalCase: the string returned
    parentType,  \* inferType: the parentTypeName argument
    fieldKey,    \* inferType: the key of the field that holds an object
    cliOptions,  \* main: the options of the command line
    saveFails,   \* main: whether project.save() will fail
    stages,      \* main: the stages started so far, in order
    caught,      \* main: the error its catch block received
    printed,     \* main: the lines written with console.error
    written,     \* main: the component file written
    exitCode     \* main: the exit code of the process, once it has ended

apiVars == <<callParameters, network, requestsIssued, callResult>>

validationVars ==
    <<programArguments, fileSystem, validationResults, validationOutcome>>

nameVars == <<textToConvert, pascalCase, parentType, fieldKey>>

cliVars == <<cliOptions, saveFails, stages, caught, printed, written, exitCode>>

\* the variables of the operations modelled further down
moreVars == <<nameVars, cliVars>>

vars == <<pc, filePath, fileOnDisk, content, contentRead, inspected, result,
          restCallResponse, rootName, interfaceMap, output, calls,
          apiVars, validationVars, moreVars>>

-----------------------------------------------------------------------------
(* Bounds of the model *)

MaxHeaderLines == 2
MaxBodyLines == 1

-----------------------------------------------------------------------------
(* JavaScript values *)

Undef == [t |-> "undefined"]
Null == [t |-> "null"]
Bool(b) == [t |-> "bool", b |-> b]
Num(n) == [t |-> "num", n |-> n]
Str(s) == [t |-> "str", s |-> s]
Arr(items) == [t |-> "arr", items |-> items]
Obj(fields) == [t |-> "obj", fields |-> fields]

\* JavaScript truthiness (used by !x, x ? a : b, a && b)
Truthy(v) ==
    CASE v.t = "undefined" -> FALSE
      [] v.t = "null" -> FALSE
      [] v.t = "bool" -> v.b
      [] v.t = "num" -> v.n # 0
      [] v.t = "str" -> v.s # <<>>
      [] OTHER -> TRUE

\* a ?? b
Coalesce(a, b) == IF a.t \in {"undefined", "null"} THEN b ELSE a

\* obj[key] on a plain object: the last pair with that key, else undefined
RECURSIVE GetFrom(_, _, _)
GetFrom(fields, key, i) ==
    IF i = 0 THEN Undef
    ELSE IF fields[i][1] = key THEN fields[i][2]
    ELSE GetFrom(fields, key, i - 1)

Get(v, key) ==
    IF v.t = "obj" THEN GetFrom(v.fields, key, Len(v.fields)) ELSE Undef

-----------------------------------------------------------------------------
(* JavaScript string built-ins, on sequences of characters *)

LowerLetters ==
    <<"a", "b", "c", "d", "e", "f", "g", "h", "i", "j", "k", "l", "m",
      "n", "o", "p", "q", "r", "s", "t", "u", "v", "w", "x", "y", "z">>

UpperLetters ==
    <<"A", "B", "C", "D", "E", "F", "G", "H", "I", "J", "K", "L", "M",
      "N", "O", "P", "Q", "R", "S", "T", "U", "V", "W", "X", "Y", "Z">>

Digits == {"0", "1", "2", "3", "4", "5", "6", "7", "8", "9"}

IsLower(c) == \E i \in 1..26 : LowerLetters[i] = c
IsUpper(c) == \E i \in 1..26 : UpperLetters[i] = c
IsAlnum(c) == IsLower(c) \/ IsUpper(c) \/ c \in Digits

\* \s of a regular expression, String.prototype.trim
IsSpace(c) == c \in {" ", "\t", "\n", "\r"}

UpperChar(c) ==
    IF IsLower(c) THEN UpperLetters[CHOOSE i \in 1..26 : LowerLetters[i] = c]
    ELSE c

LowerChar(c) ==
    IF IsUpper(c) THEN LowerLetters[CHOOSE i \in 1..26 : UpperLetters[i] = c]
    ELSE c

ToUpperCase(s) == [i \in 1..Len(s) |-> UpperChar(s[i])]
ToLowerCase(s) == [i \in 1..Len(s) |-> LowerChar(s[i])]

StartsWith(s, p) == Len(s) >= Len(p) /\ SubSeq(s, 1, Len(p)) = p

\* s.slice(i) with a 0-based index
SliceFrom(s, i) == SubSeq(s, i + 1, Len(s))

Min(S) == CHOOSE x \in S : \A y \in S : x <= y
Max(S) == CHOOSE x \in S : \A y \in S : x >= y

\* the k-th smallest element of a set of numbers
Nth(S, k) == CHOOSE x \in S : Cardinality({y \in S : y < x}) = k - 1

NonSpaces(s) == {i \in 1..Len(s) : ~IsSpace(s[i])}

TrimStart(s) ==
    IF NonSpaces(s) = {} THEN <<>> ELSE SubSeq(s, Min(NonSpaces(s)), Len(s))

TrimEnd(s) ==
    IF NonSpaces(s) = {} THEN <<>> ELSE SubSeq(s, 1, Max(NonSpaces(s)))

Trim(s) == TrimEnd(TrimStart(s))

\* s.split(c) for a one-character separator: never empty, "" gives [""]
Split(s, c) ==
    LET seps == {i \in 1..Len(s) : s[i] = c}
        n == Cardinality(seps)
        at(k) == IF k = 0 THEN 0 ELSE IF k > n THEN Len(s) + 1 ELSE Nth(seps, k)
    IN  [k \in 1..(n + 1) |-> SubSeq(s, at(k - 1) + 1, at(k) - 1)]

\* s.split(/\s+/): the separator is a maximal run of white space
SplitWhitespace(s) ==
    LET starts == {i \in 1..Len(s) :
                      IsSpace(s[i]) /\ (i = 1 \/ ~IsSpace(s[i - 1]))}
        ends == {i \in 1..Len(s) :
                    IsSpace(s[i]) /\ (i = Len(s) \/ ~IsSpace(s[i + 1]))}
        n == Cardinality(starts)
        from(k) == IF k = 0 THEN 1 ELSE Nth(ends, k) + 1
        to(k) == IF k > n THEN Len(s) ELSE Nth(starts, k) - 1
    IN  [k \in 1..(n + 1) |-> SubSeq(s, from(k - 1), to(k))]

\* parts.join(sep)
RECURSIVE Join(_, _)
Join(parts, sep) ==
    IF parts = <<>> THEN <<>>
    ELSE IF Len(parts) = 1 THEN parts[1]
    ELSE parts[1] \o sep \o Join(Tail(parts), sep)

FilterNonEmpty(lines) == SelectSeq(lines, LAMBDA l : Len(l) > 0)

-----------------------------------------------------------------------------
(* JSON.parse and JSON.stringify on the JSON subset the model's files use:  *)
(* objects, arrays, strings with the escapes \" \\ \/ \n, integers without  *)
(* fraction or exponent, true, false, null.                                  *)

Fail == [ok |-> FALSE]
Parsed(v, next) == [ok |-> TRUE, val |-> v, pos |-> next]

\* the first index from i on that holds no white space, else Len(s) + 1
SkipWs(s, i) ==
    LET rest == {j \in i..Len(s) : ~IsSpace(s[j])}
    IN  IF rest = {} THEN Len(s) + 1 ELSE Min(rest)

DigitValue(c) ==
    CASE c = "0" -> 0 [] c = "1" -> 1 [] c = "2" -> 2 [] c = "3" -> 3
      [] c = "4" -> 4 [] c = "5" -> 5 [] c = "6" -> 6 [] c = "7" -> 7
      [] c = "8" -> 8 [] c = "9" -> 9

RECURSIVE ParseDigits(_, _, _)
ParseDigits(s, i, acc) ==
    IF i <= Len(s) /\ s[i] \in Digits
    THEN ParseDigits(s, i + 1, 10 * acc + DigitValue(s[i]))
    ELSE Parsed(Num(acc), i)

\* int of the JSON grammar: "-"? ( "0" | [1-9][0-9]* )
ParseNumber(s, i) ==
    LET signed(neg, r) ==
            Parsed(Num(IF neg THEN 0 - r.val.n ELSE r.val.n), r.pos)
        digits(neg, j) ==
            IF j > Len(s) \/ s[j] \notin Digits THEN Fail
            ELSE IF s[j] = "0"
            THEN IF j + 1 <= Len(s) /\ s[j + 1] \in Digits THEN Fail
                 ELSE Parsed(Num(0), j + 1)
            ELSE signed(neg, ParseDigits(s, j, 0))
    IN  IF s[i] = "-" THEN digits(TRUE, i + 1) ELSE digits(FALSE, i)

\* the number of consecutive backslashes that end right before index j
BackslashRun(s, j) ==
    LET others == {k \in 1..(j - 1) : s[k] # "\\"}
    IN  j - 1 - (IF others = {} THEN 0 ELSE Max(others))

\* the character at index j is preceded by an odd number of backslashes
Escaped(s, j) == j > 1 /\ s[j - 1] = "\\" /\ BackslashRun(s, j) % 2 = 1

\* i is the index after the opening quote
ParseString(s, i) ==
    LET intro(raw, k) == raw[k] = "\\" /\ ~Escaped(raw, k)
        valid(raw, k) ==
            IF Escaped(raw, k) THEN raw[k] \in {"\"", "\\", "/", "n"}
            ELSE raw[k] \notin {"\n", "\t", "\r"}
        char(raw, k) ==
            IF Escaped(raw, k) /\ raw[k] = "n" THEN "\n" ELSE raw[k]
        unescape(raw, kept, next) ==
            IF \E k \in kept : ~valid(raw, k) THEN Fail
            ELSE Parsed(Str([m \in 1..Cardinality(kept) |->
                                char(raw, Nth(kept, m))]), next)
        text(raw, next) ==
            unescape(raw, {k \in 1..Len(raw) : ~intro(raw, k)}, next)
        closers == {j \in i..Len(s) : s[j] = "\"" /\ ~Escaped(s, j)}
    IN  IF closers = {} THEN Fail
        ELSE text(SubSeq(s, i, Min(closers) - 1), Min(closers) + 1)

ParseLiteral(s, i, word, v) ==
    IF StartsWith(SliceFrom(s, i - 1), word) THEN Parsed(v, i + Len(word))
    ELSE Fail

RECURSIVE ParseValue(_, _)
RECURSIVE ParseElements(_, _, _)
RECURSIVE ParseMembers(_, _, _)

\* i is the index of the next element; acc the elements so far
ParseElements(s, i, acc) ==
    LET separator(j, items) ==
            IF j > Len(s) THEN Fail
            ELSE IF s[j] = "," THEN ParseElements(s, j + 1, items)
            ELSE IF s[j] = "]" THEN Parsed(Arr(items), j + 1)
            ELSE Fail
        element(r) ==
            IF ~r.ok THEN Fail
            ELSE separator(SkipWs(s, r.pos), Append(acc, r.val))
    IN  element(ParseValue(s, i))

\* a later member with the same key replaces the value and keeps the place
PutField(fields, k, v) ==
    IF \E n \in 1..Len(fields) : fields[n][1] = k
    THEN [n \in 1..Len(fields) |->
             IF fields[n][1] = k THEN <<k, v>> ELSE fields[n]]
    ELSE Append(fields, <<k, v>>)

\* i is the index of the next member; acc the members so far
ParseMembers(s, i, acc) ==
    LET separator(e, put) ==
            IF e > Len(s) THEN Fail
            ELSE IF s[e] = "," THEN ParseMembers(s, e + 1, put)
            ELSE IF s[e] = "}" THEN Parsed(Obj(put), e + 1)
            ELSE Fail
        value(k, r) ==
            IF ~r.ok THEN Fail
            ELSE separator(SkipWs(s, r.pos), PutField(acc, k, r.val))
        colon(k, c) ==
            IF c > Len(s) \/ s[c] # ":" THEN Fail
            ELSE value(k, ParseValue(s, c + 1))
        key(k) == IF ~k.ok THEN Fail ELSE colon(k.val.s, SkipWs(s, k.pos))
        member(j) ==
            IF j > Len(s) \/ s[j] # "\"" THEN Fail
            ELSE key(ParseString(s, j + 1))
    IN  member(SkipWs(s, i))

ParseValue(s, i) ==
    LET object(j, e) ==
            IF e <= Len(s) /\ s[e] = "}" THEN Parsed(Obj(<<>>), e + 1)
            ELSE ParseMembers(s, j + 1, <<>>)
        array(j, e) ==
            IF e <= Len(s) /\ s[e] = "]" THEN Parsed(Arr(<<>>), e + 1)
            ELSE ParseElements(s, j + 1, <<>>)
        value(j) ==
            IF j > Len(s) THEN Fail
            ELSE IF s[j] = "{" THEN object(j, SkipWs(s, j + 1))
            ELSE IF s[j] = "[" THEN array(j, SkipWs(s, j + 1))
            ELSE IF s[j] = "\"" THEN ParseString(s, j + 1)
            ELSE IF s[j] = "n"
            THEN ParseLiteral(s, j, <<"n", "u", "l", "l">>, Null)
            ELSE IF s[j] = "t"
            THEN ParseLiteral(s, j, <<"t", "r", "u", "e">>, Bool(TRUE))
            ELSE IF s[j] = "f"
            THEN ParseLiteral(s, j, <<"f", "a", "l", "s", "e">>, Bool(FALSE))
            ELSE IF s[j] = "-" \/ s[j] \in Digits THEN ParseNumber(s, j)
            ELSE Fail
    IN  value(SkipWs(s, i))

\* JSON.parse(text): [ok |-> TRUE, val] or [ok |-> FALSE] for a SyntaxError
JsonParse(s) ==
    LET end(r) ==
            IF r.ok /\ SkipWs(s, r.pos) > Len(s)
            THEN [ok |-> TRUE, val |-> r.val]
            ELSE Fail
    IN  end(ParseValue(s, 1))

\* try { return JSON.parse(text) } catch { throw error }
ParsedOrThrow(parsed, error) == IF parsed.ok THEN parsed ELSE error

RECURSIVE EscapeString(_)
EscapeString(s) ==
    IF s = <<>> THEN <<>>
    ELSE (IF Head(s) \in {"\"", "\\"} THEN <<"\\", Head(s)>>
          ELSE IF Head(s) = "\n" THEN <<"\\", "n">>
          ELSE <<Head(s)>>) \o EscapeString(Tail(s))

Quoted(s) == <<"\"">> \o EscapeString(s) \o <<"\"">>

RECURSIVE NatToString(_)
NatToString(n) ==
    LET d == CHOOSE c \in Digits : DigitValue(c) = n % 10
    IN  IF n < 10 THEN <<d>> ELSE NatToString(n \div 10) \o <<d>>

RECURSIVE JsonStringify(_)
RECURSIVE StringifyAll(_, _)

\* the texts of the elements or members from n on, comma separated
StringifyAll(v, n) ==
    LET len == IF v.t = "arr" THEN Len(v.items) ELSE Len(v.fields)
        one == IF v.t = "arr" THEN JsonStringify(v.items[n])
               ELSE Quoted(v.fields[n][1]) \o <<":">>
                        \o JsonStringify(v.fields[n][2])
    IN  IF n > len THEN <<>>
        ELSE IF n = len THEN one
        ELSE one \o <<",">> \o StringifyAll(v, n + 1)

JsonStringify(v) ==
    CASE v.t = "null" -> <<"n", "u", "l", "l">>
      [] v.t = "bool" -> IF v.b THEN <<"t", "r", "u", "e">>
                         ELSE <<"f", "a", "l", "s", "e">>
      [] v.t = "num" -> IF v.n < 0 THEN <<"-">> \o NatToString(0 - v.n)
                        ELSE NatToString(v.n)
      [] v.t = "str" -> Quoted(v.s)
      [] v.t = "arr" -> <<"[">> \o StringifyAll(v, 1) \o <<"]">>
      [] v.t = "obj" -> <<"{">> \o StringifyAll(v, 1) \o <<"}">>


-----------------------------------------------------------------------------
(* Plain objects used as maps, thrown errors *)

Has(v, key) == v.t = "obj" /\ \E n \in 1..Len(v.fields) : v.fields[n][1] = key

\* obj[key] = value
Put(v, key, value) == Obj(PutField(v.fields, key, value))

\* delete obj[key]
Delete(v, key) == Obj(SelectSeq(v.fields, LAMBDA f : f[1] # key))

\* Object.keys(obj).length
KeyCount(v) == Len(v.fields)

\* String(v), as template literals, Array.prototype.join and JSON.parse coerce
RECURSIVE ToJsString(_)
RECURSIVE JoinValues(_, _)

\* items.join(sep): null and undefined elements give the empty string
JoinValues(items, sep) ==
    LET one(v) == IF v.t \in {"null", "undefined"} THEN <<>> ELSE ToJsString(v)
    IN  IF items = <<>> THEN <<>>
        ELSE IF Len(items) = 1 THEN one(items[1])
        ELSE one(items[1]) \o sep \o JoinValues(Tail(items), sep)

ToJsString(v) ==
    CASE v.t = "str" -> v.s
      [] v.t = "num" -> IF v.n < 0 THEN <<"-">> \o NatToString(0 - v.n)
                        ELSE NatToString(v.n)
      [] v.t = "bool" -> IF v.b THEN <<"t", "r", "u", "e">>
                         ELSE <<"f", "a", "l", "s", "e">>
      [] v.t = "null" -> <<"n", "u", "l", "l">>
      [] v.t = "undefined" -> <<"u", "n", "d", "e", "f", "i", "n", "e", "d">>
      [] v.t = "arr" -> JoinValues(v.items, <<",">>)
      [] v.t = "obj" -> <<"[", "o", "b", "j", "e", "c", "t", " ",
                          "O", "b", "j", "e", "c", "t", "]">>

\* a thrown error: its class, its message text and the fragment the text embeds
Thrown(name, text, arg) ==
    [ok |-> FALSE, err |-> [name |-> name, text |-> text, arg |-> arg]]

-----------------------------------------------------------------------------
(* The Authorization header, shared by the three extractors *)

sAuthorizationUpper ==
    <<"A", "u", "t", "h", "o", "r", "i", "z", "a", "t", "i", "o", "n">>

sAuthorizationLower ==
    <<"a", "u", "t", "h", "o", "r", "i", "z", "a", "t", "i", "o", "n">>

sBearerLower == <<"b", "e", "a", "r", "e", "r">>

\* the shared body of parseAuthHeader and extractAuthHeader:
\*   authHeader = h['Authorization'] ?? h['authorization'];
\*   if (authHeader?.toLowerCase().startsWith('bearer')) delete both keys
AuthHeaderOf(h) ==
    LET strip(authHeader) ==
            IF authHeader.t \in {"undefined", "null"}
            THEN [ok |-> TRUE, authHeader |-> authHeader, headers |-> h]
            ELSE IF authHeader.t # "str"
            THEN Thrown("TypeError", "toLowerCase is not a function", <<>>)
            ELSE IF StartsWith(ToLowerCase(authHeader.s), sBearerLower)
            THEN [ok |-> TRUE, authHeader |-> authHeader,
                  headers |-> Delete(Delete(h, sAuthorizationUpper),
                                     sAuthorizationLower)]
            ELSE [ok |-> TRUE, authHeader |-> authHeader, headers |-> h]
    IN  strip(Coalesce(Get(h, sAuthorizationUpper),
                       Get(h, sAuthorizationLower)))

\* authHeader?.replace(/^Bearer\s+/i, '')
StripBearer(authHeader) ==
    IF authHeader.t \in {"undefined", "null"} THEN Undef
    ELSE IF StartsWith(ToLowerCase(authHeader.s), sBearerLower)
            /\ Len(authHeader.s) > 6 /\ IsSpace(authHeader.s[7])
    THEN Str(TrimStart(SliceFrom(authHeader.s, 6)))
    ELSE authHeader

\* Object.keys(headers).length ? headers : undefined
HeadersOrUndefined(headers) == IF KeyCount(headers) > 0 THEN headers ELSE Undef

apiParameters(url, method, token, headers, requestBody) ==
    [ok |-> TRUE,
     val |-> [targetUrl |-> url, httpMethod |-> method, authToken |-> token,
              requestHeaders |-> headers, requestBody |-> requestBody,
              queryParams |-> Undef]]

-----------------------------------------------------------------------------
(* httpParsingUtils *)

splitAndFilterLines(fileContent) ==
    LET lines == Split(fileContent, "\n")
    IN  FilterNonEmpty([i \in 1..Len(lines) |-> Trim(lines[i])])

extractMethodAndUrl(fileLines) ==
    LET pair(method, url) ==
            IF ~Truthy(method) \/ ~Truthy(url)
            THEN Thrown("Error", "Invalid request line", fileLines[1])
            ELSE [ok |-> TRUE, method |-> method.s, url |-> url.s]
        destructure(parts) ==
            pair(Str(parts[1]),
                 IF Len(parts) >= 2 THEN Str(parts[2]) ELSE Undef)
    IN  IF fileLines = <<>>
        THEN Thrown("TypeError", "Cannot read properties of undefined", <<>>)
        ELSE destructure(SplitWhitespace(fileLines[1]))

\* the loop of createRecordOfHeaders; i is the 0-based line index
RECURSIVE HeaderLoop(_, _, _, _)
HeaderLoop(fileLines, i, headers, bodyStartIndex) ==
    LET entry(line, key, rest) ==
            IF StartsWith(line, <<"{">>) \/ StartsWith(line, <<"[">>)
            THEN [headers |-> headers, bodyStartIndex |-> bodyStartIndex]
            ELSE IF key = <<>> \/ rest = <<>>
            THEN HeaderLoop(fileLines, i + 1, headers, bodyStartIndex)
            ELSE HeaderLoop(fileLines, i + 1,
                            Put(headers, Trim(key),
                                Str(Trim(Join(rest, <<":">>)))),
                            bodyStartIndex + 1)
        destructure(line, parts) == entry(line, parts[1], Tail(parts))
    IN  IF i >= Len(fileLines)
        THEN [headers |-> headers, bodyStartIndex |-> bodyStartIndex]
        ELSE destructure(fileLines[i + 1], Split(fileLines[i + 1], ":"))

createRecordOfHeaders(fileLines, bodyStartIndex) ==
    HeaderLoop(fileLines, 1, Obj(<<>>), bodyStartIndex)

\* a parseRequestBody whose catch block gives up the body
parseRequestBodySilent(fileLines, bodyStartIndex) ==
    LET parse(rawBody) ==
            IF rawBody = <<>> THEN [ok |-> TRUE, val |-> Undef]
            ELSE ParsedOrThrow(JsonParse(rawBody), [ok |-> TRUE, val |-> Undef])
    IN  parse(Join(SliceFrom(fileLines, bodyStartIndex), <<"\n">>))

parseRequestBody(fileLines, bodyStartIndex) ==
    LET parse(rawBody) ==
            IF rawBody = <<>> THEN [ok |-> TRUE, val |-> Undef]
            ELSE ParsedOrThrow(JsonParse(rawBody),
                               Thrown("Error",
                                      "Invalid JSON body in .http file", <<>>))
    IN  parse(Join(SliceFrom(fileLines, bodyStartIndex), <<"\n">>))

parseAuthHeader(requestHeaders) == AuthHeaderOf(requestHeaders)

parseHttpFile(fileContent) ==
    LET parameters(line, requestBody, auth) ==
            IF ~line.ok THEN line
            ELSE IF ~requestBody.ok THEN requestBody
            ELSE IF ~auth.ok THEN auth
            ELSE apiParameters(Str(line.url), Str(ToUpperCase(line.method)),
                               StripBearer(auth.authHeader),
                               HeadersOrUndefined(auth.headers),
                               requestBody.val)
        request(fileLines, rec) ==
            parameters(extractMethodAndUrl(fileLines),
                       parseRequestBody(fileLines, rec.bodyStartIndex),
                       parseAuthHeader(rec.headers))
        lines(fileLines) ==
            request(fileLines, createRecordOfHeaders(fileLines, 1))
    IN  lines(splitAndFilterLines(fileContent))

-----------------------------------------------------------------------------
(* txtParsingUtils *)

IsQuote(c) == c \in {"'", "\""}

\* shell-quote's parse on the subset the model's commands use: words separated
\* by white space, '...' and "..." taken literally with the quotes removed
\* (no escapes, operators, globs, variables or comments).  i is the index of
\* the next piece (a quoted part, a run of white space or a run of other
\* characters), cur the token so far, inToken tells that a token has started.
RECURSIVE ShellParse(_, _, _, _)
ShellParse(s, i, cur, inToken) ==
    LET flush == IF inToken THEN <<Str(cur)>> ELSE <<>>
        closers == {j \in (i + 1)..Len(s) : s[j] = s[i]}
        close == IF closers = {} THEN Len(s) + 1 ELSE Min(closers)
        stops == {j \in i..Len(s) : IsSpace(s[j]) \/ IsQuote(s[j])}
        stop == IF stops = {} THEN Len(s) + 1 ELSE Min(stops)
    IN  IF i > Len(s) THEN flush
        ELSE IF IsQuote(s[i])
        THEN ShellParse(s, close + 1, cur \o SubSeq(s, i + 1, close - 1), TRUE)
        ELSE IF IsSpace(s[i])
        THEN flush \o ShellParse(s, SkipWs(s, i), <<>>, FALSE)
        ELSE ShellParse(s, stop, cur \o SubSeq(s, i, stop - 1), TRUE)

extractTokensFromRequest(fileContent) == ShellParse(fileContent, 1, <<>>, FALSE)

\* tokens[i] with a 0-based index: undefined outside the array
TokenAt(tokens, i) ==
    IF i >= 0 /\ i < Len(tokens) THEN tokens[i + 1] ELSE Undef

fX == Str(<<"-", "X">>)
fRequest == Str(<<"-", "-", "r", "e", "q", "u", "e", "s", "t">>)
fH == Str(<<"-", "H">>)
fHeader == Str(<<"-", "-", "h", "e", "a", "d", "e", "r">>)
fD == Str(<<"-", "d">>)
fData == Str(<<"-", "-", "d", "a", "t", "a">>)
fDataRaw == Str(<<"-", "-", "d", "a", "t", "a", "-", "r", "a", "w">>)
fDataBinary ==
    Str(<<"-", "-", "d", "a", "t", "a", "-", "b", "i", "n", "a", "r", "y">>)

sGET == <<"G", "E", "T">>
sHttp == <<"h", "t", "t", "p">>

extractAuthHeader(headers) == AuthHeaderOf(headers)

\* an extractMethod that hands the method on as it was written
extractMethodAsWritten(tokens) ==
    LET method(methodIndex) ==
            IF methodIndex # -1 /\ Truthy(TokenAt(tokens, methodIndex + 1))
            THEN TokenAt(tokens, methodIndex + 1).s
            ELSE sGET
        findIndex(found) == IF found = {} THEN -1 ELSE Min(found)
    IN  method(findIndex({i \in 0..(Len(tokens) - 1) :
                             tokens[i + 1] \in {fX, fRequest}}))

extractMethod(tokens) ==
    LET method(methodIndex) ==
            IF methodIndex # -1 /\ Truthy(TokenAt(tokens, methodIndex + 1))
            THEN ToUpperCase(TokenAt(tokens, methodIndex + 1).s)
            ELSE sGET
        findIndex(found) == IF found = {} THEN -1 ELSE Min(found)
    IN  method(findIndex({i \in 0..(Len(tokens) - 1) :
                             tokens[i + 1] \in {fX, fRequest}}))

RECURSIVE HeaderTokens(_, _, _)
HeaderTokens(tokens, i, headers) ==
    LET entry(key, rest) ==
            IF key # <<>> /\ rest # <<>>
            THEN HeaderTokens(tokens, i + 1,
                              Put(headers, Trim(key),
                                  Str(Trim(Join(rest, <<":">>)))))
            ELSE HeaderTokens(tokens, i + 1, headers)
        destructure(parts) == entry(parts[1], Tail(parts))
    IN  IF i >= Len(tokens) THEN headers
        ELSE IF tokens[i + 1] \in {fH, fHeader}
                /\ Truthy(TokenAt(tokens, i + 1))
        THEN destructure(Split(TokenAt(tokens, i + 1).s, ":"))
        ELSE HeaderTokens(tokens, i + 1, headers)

\* an extractHeaders that cuts a value at its own first colon
extractHeadersCutValues(tokens) ==
    LET cut(headers) ==
            Obj([i \in 1..Len(headers.fields) |->
                    <<headers.fields[i][1],
                      Str(Trim(Split(headers.fields[i][2].s, ":")[1]))>>])
    IN  cut(HeaderTokens(tokens, 0, Obj(<<>>)))

extractHeaders(tokens) == HeaderTokens(tokens, 0, Obj(<<>>))

RECURSIVE BodyToken(_, _)
BodyToken(tokens, i) ==
    IF i >= Len(tokens) THEN [ok |-> TRUE, val |-> Undef]
    ELSE IF tokens[i + 1] \in {fD, fData, fDataRaw, fDataBinary}
            /\ Truthy(TokenAt(tokens, i + 1))
    THEN ParsedOrThrow(JsonParse(TokenAt(tokens, i + 1).s),
                       Thrown("Error", "Invalid JSON body in curl command",
                              TokenAt(tokens, i + 1).s))
    ELSE BodyToken(tokens, i + 1)

extractBody(tokens) == BodyToken(tokens, 0)

\* token.replace(/^['"]|['"]$/g, '')
StripQuotes(s) ==
    LET a == IF s # <<>> /\ IsQuote(s[1]) THEN Tail(s) ELSE s
    IN  IF a # <<>> /\ IsQuote(a[Len(a)]) THEN SubSeq(a, 1, Len(a) - 1) ELSE a

RECURSIVE UrlToken(_, _)
UrlToken(tokens, i) ==
    IF i >= Len(tokens)
    THEN Thrown("Error", "Could not determine URL from curl command.", <<>>)
    ELSE LET token == tokens[i + 1].s
         IN  IF StartsWith(token, sHttp) /\ ~StartsWith(token, <<"-">>)
                /\ TokenAt(tokens, i - 1)
                       \notin {fX, fRequest, fH, fHeader, fD, fData}
             THEN [ok |-> TRUE, val |-> StripQuotes(token)]
             ELSE UrlToken(tokens, i + 1)

\* an extractUrl that does not look at the token before
extractUrlAfterAnyToken(tokens) ==
    LET found(indexes) ==
            IF indexes = {}
            THEN Thrown("Error", "Could not determine URL from curl command.",
                        <<>>)
            ELSE [ok |-> TRUE, val |-> StripQuotes(tokens[Min(indexes)].s)]
    IN  found({i \in 1..Len(tokens) : StartsWith(tokens[i].s, sHttp)})

extractUrl(tokens) == UrlToken(tokens, 0)

parseTxtFile(fileContent) ==
    LET parameters(url, method, requestBody, auth) ==
            IF ~url.ok THEN url
            ELSE IF ~requestBody.ok THEN requestBody
            ELSE IF ~auth.ok THEN auth
            ELSE apiParameters(Str(url.val), Str(method),
                               StripBearer(auth.authHeader),
                               HeadersOrUndefined(auth.headers),
                               requestBody.val)
        request(tokens) ==
            parameters(extractUrl(tokens), extractMethod(tokens),
                       extractBody(tokens),
                       extractAuthHeader(extractHeaders(tokens)))
    IN  request(extractTokensFromRequest(fileContent))

-----------------------------------------------------------------------------
(* jsonParsingUtils *)

sUrl == <<"u", "r", "l">>
sRaw == <<"r", "a", "w">>
sHost == <<"h", "o", "s", "t">>
sPath == <<"p", "a", "t", "h">>
sMethod == <<"m", "e", "t", "h", "o", "d">>
sHeaderKey == <<"h", "e", "a", "d", "e", "r">>
sKey == <<"k", "e", "y">>
sValue == <<"v", "a", "l", "u", "e">>
sBody == <<"b", "o", "d", "y">>
sHttps == <<"h", "t", "t", "p", "s", ":", "/", "/">>

extractHttpMethod(jsonRequest) == Coalesce(Get(jsonRequest, sMethod), Str(sGET))

\* an extractTargetUrl that prefers the host and the path to url.raw
extractTargetUrlPartsFirst(jsonRequest) ==
    LET url == Get(jsonRequest, sUrl)
        host == Get(url, sHost)
        path == Get(url, sPath)
    IN  IF url.t = "str" THEN url
        ELSE IF host.t = "arr" /\ path.t = "arr"
        THEN Str(sHttps \o JoinValues(host.items, <<".">>)
                     \o <<"/">> \o JoinValues(path.items, <<"/">>))
        ELSE Coalesce(Get(url, sRaw), Str(<<>>))

extractTargetUrl(jsonRequest) ==
    LET url == Get(jsonRequest, sUrl)
        host == Get(url, sHost)
        path == Get(url, sPath)
    IN  IF url.t = "str" THEN url
        ELSE Coalesce(Get(url, sRaw),
                      IF host.t = "arr" /\ path.t = "arr"
                      THEN Str(sHttps \o JoinValues(host.items, <<".">>)
                                   \o <<"/">> \o JoinValues(path.items, <<"/">>))
                      ELSE Str(<<>>))

RECURSIVE HeaderEntries(_, _, _)
HeaderEntries(items, n, headers) ==
    IF n > Len(items) THEN [ok |-> TRUE, val |-> headers]
    ELSE LET h == items[n]
         IN  IF h.t \in {"null", "undefined"}
             THEN Thrown("TypeError", "Cannot read properties of null", <<>>)
             ELSE IF Truthy(Get(h, sKey)) /\ Truthy(Get(h, sValue))
             THEN HeaderEntries(items, n + 1,
                                Put(headers, ToJsString(Get(h, sKey)),
                                    Get(h, sValue)))
             ELSE HeaderEntries(items, n + 1, headers)

\* (jsonRequest.header ?? []).reduce(...): only an array has reduce
extractHeadersFromRequest(jsonRequest) ==
    LET reduce(header) ==
            IF header.t = "arr" THEN HeaderEntries(header.items, 1, Obj(<<>>))
            ELSE Thrown("TypeError", "reduce is not a function", <<>>)
    IN  reduce(Coalesce(Get(jsonRequest, sHeaderKey), Arr(<<>>)))

extractJsonBodyFromRequest(jsonRequest) ==
    LET parse(rawBody) ==
            IF ~Truthy(rawBody) THEN [ok |-> TRUE, val |-> Undef]
            ELSE ParsedOrThrow(JsonParse(ToJsString(rawBody)),
                               Thrown("Error",
                                      "Invalid JSON in Postman request body",
                                      <<>>))
    IN  parse(Get(Get(jsonRequest, sBody), sRaw))

\* parseJsonFile hands extractAuthHeader the request, not the header map
parseJsonFile(fileContent) ==
    LET parameters(url, method, headers, parsedBody, auth) ==
            IF ~headers.ok THEN headers
            ELSE IF ~parsedBody.ok THEN parsedBody
            ELSE IF ~auth.ok THEN auth
            ELSE IF method.t # "str"
            THEN Thrown("TypeError", "method.toUpperCase is not a function",
                        <<>>)
            ELSE apiParameters(url, Str(ToUpperCase(method.s)),
                               StripBearer(auth.authHeader),
                               HeadersOrUndefined(headers.val), parsedBody.val)
        request(parsed) ==
            IF ~parsed.ok THEN Thrown("SyntaxError", "Unexpected token", <<>>)
            ELSE IF ~Truthy(parsed.val) \/ ~Truthy(Get(parsed.val, sUrl))
            THEN Thrown("Error",
                        "Invalid Postman request JSON: missing \"url\" field.",
                        <<>>)
            ELSE parameters(extractTargetUrl(parsed.val),
                            extractHttpMethod(parsed.val),
                            extractHeadersFromRequest(parsed.val),
                            extractJsonBodyFromRequest(parsed.val),
                            extractAuthHeader(parsed.val))
    IN  request(JsonParse(fileContent))

-----------------------------------------------------------------------------
(* parseProvidedFile *)

\* path.extname(filePath): from the last "." of the base name, empty when the
\* base name has no "." or only starts with it
LastIndexOf(s, c) ==
    LET at == {i \in 1..Len(s) : s[i] = c}
    IN  IF at = {} THEN 0 ELSE Max(at)

ExtName(path) ==
    LET base == SliceFrom(path, LastIndexOf(path, "/"))
        dot == LastIndexOf(base, ".")
    IN  IF dot <= 1 THEN <<>> ELSE SliceFrom(base, dot - 1)

HTTP_EXTENSION == <<".", "h", "t", "t", "p">>
TXT_EXTENSION == <<".", "t", "x", "t">>
JSON_EXTENSION == <<".", "j", "s", "o", "n">>

\* new FileParseError(filePath, message): the message is
\* `Failed to parse input file "${filePath}": ${message}`
FileParseError(path, message) ==
    [name |-> "FileParseError",
     message |-> [prefix |-> "Failed to parse input file",
                  filePath |-> path, message |-> message]]

Rejected(error) == [kind |-> "rejected", error |-> error]
Resolved(value) == [kind |-> "resolved", value |-> value]

\* a catch block that rethrows whatever it caught
CatchBlockRethrow(path, r) ==
    IF r.ok THEN Resolved(r.val) ELSE Rejected(r.err)

\* the catch block of parseProvidedFile, applied to what the try block gave
CatchBlock(path, r) ==
    IF r.ok THEN Resolved(r.val)
    ELSE IF r.err.name = "FileParseError" THEN Rejected(r.err)
    ELSE Rejected(FileParseError(path, [text |-> r.err.text, arg |-> r.err.arg]))

Extension == ToLowerCase(ExtName(filePath))

Pending == [kind |-> "pending"]

\* no call of convertToPascalCase is in progress
NamesIdle ==
    /\ textToConvert = Undef
    /\ pascalCase = Pending
    /\ parentType = Undef
    /\ fieldKey = Undef

\* the command line program is not running
CliIdle ==
    /\ cliOptions = Undef
    /\ saveFails = FALSE
    /\ stages = <<>>
    /\ caught = Undef
    /\ printed = <<>>
    /\ written = Undef
    /\ exitCode = Undef

\* the operations modelled further down are not in progress
MoreIdle == NamesIdle /\ CliIdle

\* parseProvidedFile, generateResponseType, callSuppliedApi and
\* validateProgramArguments are not in progress
CoreIdle ==
    /\ filePath = <<>>
    /\ fileOnDisk = [exists |-> FALSE]
    /\ content = Undef
    /\ contentRead = FALSE
    /\ inspected = FALSE
    /\ result = Pending
    /\ restCallResponse = Undef
    /\ rootName = <<>>
    /\ interfaceMap = <<>>
    /\ output = Pending
    /\ calls = <<>>
    /\ callParameters = Undef
    /\ network = Undef
    /\ requestsIssued = 0
    /\ callResult = Pending
    /\ programArguments = Undef
    /\ fileSystem = Undef
    /\ validationResults = <<>>
    /\ validationOutcome = Pending

coreVars == <<filePath, fileOnDisk, content, contentRead, inspected, result,
              restCallResponse, rootName, interfaceMap, output, calls,
              apiVars, validationVars>>
Missing == [t |-> "missing"]


-----------------------------------------------------------------------------
(* The files the model parses *)

SeqsUpTo(S, n) == UNION {[1..k -> S] : k \in 0..n}

HttpRequestLines ==
    { \* GET http/x
      <<"G", "E", "T", " ", "h", "t", "t", "p", "/", "x">>,
      \* post  http/x : lower case, two spaces
      <<"p", "o", "s", "t", " ", " ", "h", "t", "t", "p", "/", "x">>,
      \* GET http/x z : three tokens
      <<"G", "E", "T", " ", "h", "t", "t", "p", "/", "x", " ", "z">>,
      \* GET : no URL
      <<"G", "E", "T">> }

HttpHeaderLines ==
    { \*  A: b  : surrounded by spaces
      <<" ", "A", ":", " ", "b", " ">>,
      \* Authorization: Bearer t
      <<"A", "u", "t", "h", "o", "r", "i", "z", "a", "t", "i", "o", "n",
        ":", " ", "B", "e", "a", "r", "e", "r", " ", "t">>,
      \* authorization: Bearer t
      <<"a", "u", "t", "h", "o", "r", "i", "z", "a", "t", "i", "o", "n",
        ":", " ", "B", "e", "a", "r", "e", "r", " ", "t">>,
      \* Authorization: Basic c
      <<"A", "u", "t", "h", "o", "r", "i", "z", "a", "t", "i", "o", "n",
        ":", " ", "B", "a", "s", "i", "c", " ", "c">>,
      \* # : a line without a colon
      <<"#">>,
      \* a blank line
      <<>> }

HttpBodyLines ==
    { \* {"a":1}
      <<"{", "\"", "a", "\"", ":", "1", "}">>,
      \* {"a":1 : not closed
      <<"{", "\"", "a", "\"", ":", "1">>,
      \* }
      <<"}">>,
      \* [1]
      <<"[", "1", "]">> }

HttpFiles ==
    { Join(<<r>> \o h \o b, <<"\n">>) :
        r \in HttpRequestLines,
        h \in SeqsUpTo(HttpHeaderLines, MaxHeaderLines),
        b \in SeqsUpTo(HttpBodyLines, MaxBodyLines) }

CurlMethodArgs ==
    { \* curl : no method
      <<"c", "u", "r", "l">>,
      \* curl -X post
      <<"c", "u", "r", "l", " ", "-", "X", " ", "p", "o", "s", "t">>,
      \* curl --request PUT
      <<"c", "u", "r", "l", " ", "-", "-", "r", "e", "q", "u", "e", "s",
        "t", " ", "P", "U", "T">> }

CurlUrlArgs ==
    { \* http/x
      <<"h", "t", "t", "p", "/", "x">>,
      \* 'http/x'
      <<"'", "h", "t", "t", "p", "/", "x", "'">>,
      \* no URL
      <<>> }

CurlHeaderArgs ==
    { \* -H ' A : b '
      <<"-", "H", " ", "'", " ", "A", " ", ":", " ", "b", " ", "'">>,
      \* -H 'Authorization: Bearer t'
      <<"-", "H", " ", "'", "A", "u", "t", "h", "o", "r", "i", "z", "a",
        "t", "i", "o", "n", ":", " ", "B", "e", "a", "r", "e", "r", " ",
        "t", "'">>,
      \* --header 'authorization: Bearer t'
      <<"-", "-", "h", "e", "a", "d", "e", "r", " ", "'", "a", "u", "t",
        "h", "o", "r", "i", "z", "a", "t", "i", "o", "n", ":", " ", "B",
        "e", "a", "r", "e", "r", " ", "t", "'">>,
      \* -H 'Authorization: Basic c'
      <<"-", "H", " ", "'", "A", "u", "t", "h", "o", "r", "i", "z", "a",
        "t", "i", "o", "n", ":", " ", "B", "a", "s", "i", "c", " ", "c", "'">>,
      \* -H '#' : no colon
      <<"-", "H", " ", "'", "#", "'">> }

CurlDataArgs ==
    { \* -d '{"a":1}'
      <<"-", "d", " ", "'", "{", "\"", "a", "\"", ":", "1", "}", "'">>,
      \* --data-raw '{"a":1' : not closed
      <<"-", "-", "d", "a", "t", "a", "-", "r", "a", "w", " ", "'", "{",
        "\"", "a", "\"", ":", "1", "'">>,
      \* --data-binary '[1]'
      <<"-", "-", "d", "a", "t", "a", "-", "b", "i", "n", "a", "r", "y",
        " ", "'", "[", "1", "]", "'">>,
      \* -d '' : an empty token
      <<"-", "d", " ", "'", "'">> }

TxtFiles ==
    { Join(<<m, u>> \o h \o d, <<" ">>) :
        m \in CurlMethodArgs, u \in CurlUrlArgs,
        h \in SeqsUpTo(CurlHeaderArgs, MaxHeaderLines),
        d \in SeqsUpTo(CurlDataArgs, MaxBodyLines) }


sUrlText == <<"h", "t", "t", "p", "/", "x">>
sBearerT == <<"B", "e", "a", "r", "e", "r", " ", "t">>
sBasicC == <<"B", "a", "s", "i", "c", " ", "c">>

Entry(key, value) == Obj(<< <<sKey, Str(key)>>, <<sValue, Str(value)>> >>)

JsonMethods == {Missing, Str(<<"p", "o", "s", "t">>)}

JsonUrls ==
    { Missing,
      Str(sUrlText),
      Obj(<< <<sRaw, Str(sUrlText)>> >>),
      Obj(<< <<sHost, Arr(<<Str(<<"a">>), Str(<<"b">>)>>)>>,
             <<sPath, Arr(<<Str(<<"p">>)>>)>> >>),
      Obj(<<>>) }

JsonHeaderEntries ==
    { Entry(<<"A">>, <<"b">>),
      Entry(sAuthorizationUpper, sBearerT),
      Entry(sAuthorizationLower, sBearerT),
      Entry(sAuthorizationUpper, sBasicC),
      Obj(<< <<sKey, Str(<<"A">>)>> >>) }

JsonHeaders ==
    {Missing} \cup {Arr(h) : h \in SeqsUpTo(JsonHeaderEntries, MaxHeaderLines)}

JsonBodies ==
    { Missing,
      Obj(<< <<sRaw, Str(<<"{", "\"", "a", "\"", ":", "1", "}">>)>> >>),
      Obj(<< <<sRaw, Str(<<"{", "\"", "a", "\"", ":", "1">>)>> >>),
      Obj(<< <<sRaw, Str(<<>>)>> >>),
      Obj(<<>>) }

Field(key, v) == IF v = Missing THEN <<>> ELSE << <<key, v>> >>

JsonRequests ==
    { Obj(Field(sMethod, m) \o Field(sUrl, u) \o Field(sHeaderKey, h)
              \o Field(sBody, b)) :
        m \in JsonMethods, u \in JsonUrls, h \in JsonHeaders, b \in JsonBodies }

\* texts that are not a request object: not JSON, null, a number
JsonOtherTexts == {<<"{">>, <<"n", "u", "l", "l">>, <<"5">>}

JsonFiles == {JsonStringify(r) : r \in JsonRequests} \cup JsonOtherTexts


\* more files: the edge cases of the request line, the headers and the URL
ExtraHttpFiles ==
    { \* an empty file
      <<>>,
      \* trace http/x : a method that is no HTTP method
      <<"t", "r", "a", "c", "e", " ", "h", "t", "t", "p", "/", "x">>,
      \* a header with a second colon
      <<"G", "E", "T", " ", "h", "t", "t", "p", "/", "x", "\n", "A", " ",
        ":", " ", "b", ":", "c">>,
      \* a header with an empty key
      <<"G", "E", "T", " ", "h", "t", "t", "p", "/", "x", "\n", ":", "v">>,
      \* a line without a colon before a header and a body
      <<"G", "E", "T", " ", "h", "t", "t", "p", "/", "x", "\n", "#", "\n",
        "A", ":", " ", "b", "\n", "[", "1", "]">>,
      \* the word Bearer with a token and no space between them
      <<"G", "E", "T", " ", "h", "t", "t", "p", "/", "x", "\n", "A", "u",
        "t", "h", "o", "r", "i", "z", "a", "t", "i", "o", "n", ":", " ",
        "B", "e", "a", "r", "e", "r", "X", "Y", "Z">>,
      \* the word Bearer alone
      <<"G", "E", "T", " ", "h", "t", "t", "p", "/", "x", "\n", "a", "u",
        "t", "h", "o", "r", "i", "z", "a", "t", "i", "o", "n", ":", " ",
        "b", "e", "a", "r", "e", "r">>,
      \* the Authorization header twice, a bearer token in the first
      <<"G", "E", "T", " ", "h", "t", "t", "p", "/", "x", "\n", "A", "u",
        "t", "h", "o", "r", "i", "z", "a", "t", "i", "o", "n", ":", " ",
        "B", "e", "a", "r", "e", "r", " ", "t", "\n", "a", "u", "t", "h",
        "o", "r", "i", "z", "a", "t", "i", "o", "n", ":", " ", "B", "a",
        "s", "i", "c", " ", "c">> }

ExtraTxtFiles ==
    { \* curl -X trace http/x
      <<"c", "u", "r", "l", " ", "-", "X", " ", "t", "r", "a", "c", "e",
        " ", "h", "t", "t", "p", "/", "x">>,
      \* curl http/x -X : the flag without a value
      <<"c", "u", "r", "l", " ", "h", "t", "t", "p", "/", "x", " ", "-", "X">>,
      \* a header with a second colon
      <<"c", "u", "r", "l", " ", "h", "t", "t", "p", "/", "x", " ", "-",
        "H", " ", "'", "A", " ", ":", " ", "b", ":", "c", "'">>,
      \* a header whose key is white space
      <<"c", "u", "r", "l", " ", "h", "t", "t", "p", "/", "x", " ", "-",
        "H", " ", "'", " ", ":", " ", "v", "'">>,
      \* a header with an empty key
      <<"c", "u", "r", "l", " ", "h", "t", "t", "p", "/", "x", " ", "-",
        "H", " ", "'", ":", "v", "'">>,
      \* a text with http after -d
      <<"c", "u", "r", "l", " ", "-", "d", " ", "h", "t", "t", "p", "/",
        "y", " ", "h", "t", "t", "p", "/", "x">>,
      \* a text with http after --data-raw
      <<"c", "u", "r", "l", " ", "-", "-", "d", "a", "t", "a", "-", "r",
        "a", "w", " ", "h", "t", "t", "p", "/", "y">>,
      \* texts with http after -H and -X
      <<"c", "u", "r", "l", " ", "-", "H", " ", "h", "t", "t", "p", "/",
        "y", " ", "-", "X", " ", "h", "t", "t", "p", "/", "z", " ", "h",
        "t", "t", "p", "/", "x">>,
      \* a URL token that ends with a quote
      <<"c", "u", "r", "l", " ", "\"", "h", "t", "t", "p", "/", "x", "'",
        "\"">>,
      \* the word Bearer with a token and no space between them
      <<"c", "u", "r", "l", " ", "h", "t", "t", "p", "/", "x", " ", "-",
        "H", " ", "'", "A", "u", "t", "h", "o", "r", "i", "z", "a", "t",
        "i", "o", "n", ":", " ", "B", "e", "a", "r", "e", "r", "X", "Y",
        "Z", "'">>,
      \* the word Bearer alone
      <<"c", "u", "r", "l", " ", "h", "t", "t", "p", "/", "x", " ", "-",
        "H", " ", "'", "A", "u", "t", "h", "o", "r", "i", "z", "a", "t",
        "i", "o", "n", ":", " ", "B", "e", "a", "r", "e", "r", "'">> }

ExtraJsonRequests ==
    { Obj(<< <<sMethod, Str(<<"t", "r", "a", "c", "e">>)>>,
             <<sUrl, Str(sUrlText)>> >>),
      Obj(<< <<sMethod, Str(<<>>)>>, <<sUrl, Str(sUrlText)>> >>),
      Obj(<< <<sMethod, Null>>, <<sUrl, Str(sUrlText)>> >>),
      Obj(<< <<sUrl, Str(<<>>)>> >>),
      Obj(<< <<sUrl, Obj(<< <<sRaw, Str(<<>>)>> >>)>> >>),
      Obj(<< <<sUrl, Obj(<< <<sHost, Arr(<<Str(<<"a">>)>>)>> >>)>> >>),
      \* a url with raw, host and path
      Obj(<< <<sUrl, Obj(<< <<sRaw, Str(sUrlText)>>,
                            <<sHost, Arr(<<Str(<<"a">>)>>)>>,
                            <<sPath, Arr(<<Str(<<"p">>)>>)>> >>)>> >>),
      \* a url whose raw is null
      Obj(<< <<sUrl, Obj(<< <<sRaw, Null>>,
                            <<sHost, Arr(<<Str(<<"a">>), Str(<<"b">>)>>)>>,
                            <<sPath, Arr(<<Str(<<"p">>), Str(<<"q">>)>>)>> >>)>> >>),
      \* a url whose host is a string
      Obj(<< <<sUrl, Obj(<< <<sHost, Str(<<"a">>)>>,
                            <<sPath, Arr(<<Str(<<"p">>)>>)>> >>)>> >>),
      \* a url with no host part and no path part
      Obj(<< <<sUrl, Obj(<< <<sHost, Arr(<<>>)>>, <<sPath, Arr(<<>>)>> >>)>> >>) }

ExtraJsonFiles == {JsonStringify(r) : r \in ExtraJsonRequests}

HttpPaths == {<<"f", ".", "h", "t", "t", "p">>, <<"d", "/", "f", ".", "H", "T", "T", "P">>}
TxtPaths == {<<"f", ".", "t", "x", "t">>}
JsonPaths == {<<"f", ".", "j", "s", "o", "n">>}
OtherPaths == {<<"f", ".", "x", "y", "z">>, <<"f">>, <<".", "h", "t", "t", "p">>}

\* what the files with an unsupported extension hold
OtherTexts ==
    { <<"G", "E", "T", " ", "h", "t", "t", "p", "/", "x">>,
      <<"c", "u", "r", "l", " ", "h", "t", "t", "p", "/", "x">> }

\* what fs.readFile finds at a path
OnDisk(text) == [exists |-> TRUE, text |-> text]
NotOnDisk == [exists |-> FALSE]

Files ==
    {<<f[1], OnDisk(f[2])>> :
        f \in (HttpPaths \X (HttpFiles \cup ExtraHttpFiles))
                \cup (TxtPaths \X (TxtFiles \cup ExtraTxtFiles))
                \cup (JsonPaths \X (JsonFiles \cup ExtraJsonFiles))
                \cup (OtherPaths \X OtherTexts)}
        \cup ((HttpPaths \cup TxtPaths \cup JsonPaths \cup OtherPaths)
                  \X {NotOnDisk})

-----------------------------------------------------------------------------
(* parseProvidedFile as a state machine: the await of fs.readFile, then the  *)
(* switch on the extension with the extractor it calls and the catch block  *)

sENOENT == "ENOENT: no such file or directory"
sUnsupported == "Unsupported file type"

InitParse ==
    /\ pc = "called"
    /\ \E f \in Files : filePath = f[1] /\ fileOnDisk = f[2]
    /\ content = Undef
    /\ contentRead = FALSE
    /\ inspected = FALSE
    /\ result = Pending
    /\ restCallResponse = [responseBody |-> Undef]
    /\ rootName = <<>>
    /\ interfaceMap = <<>>
    /\ output = Pending
    /\ calls = <<>>
    /\ callParameters = Undef
    /\ network = Undef
    /\ requestsIssued = 0
    /\ callResult = Pending
    /\ programArguments = Undef
    /\ fileSystem = Undef
    /\ validationResults = <<>>
    /\ validationOutcome = Pending
    /\ MoreIdle

ReadFile ==
    /\ pc = "called"
    /\ fileOnDisk.exists
    /\ content' = Str(fileOnDisk.text)
    /\ contentRead' = TRUE
    /\ pc' = "read"
    /\ UNCHANGED <<filePath, fileOnDisk, inspected, result,
                   restCallResponse, rootName, interfaceMap, output,
                   calls, apiVars, validationVars, moreVars>>

ReadFileFails ==
    /\ pc = "called"
    /\ ~fileOnDisk.exists
    /\ result' = CatchBlock(filePath,
                            Thrown("Error", sENOENT, filePath))
    /\ pc' = "done"
    /\ UNCHANGED <<filePath, fileOnDisk, content, contentRead, inspected,
                   restCallResponse, rootName, interfaceMap, output,
                   calls, apiVars, validationVars, moreVars>>

Extract(extension, r) ==
    /\ pc = "read"
    /\ Extension = extension
    /\ inspected' = TRUE
    /\ result' = CatchBlock(filePath, r)
    /\ pc' = "done"
    /\ UNCHANGED <<filePath, fileOnDisk, content, contentRead,
                   restCallResponse, rootName, interfaceMap, output,
                   calls, apiVars, validationVars, moreVars>>

CaseHttp == Extract(HTTP_EXTENSION, parseHttpFile(content.s))

CaseTxt == Extract(TXT_EXTENSION, parseTxtFile(content.s))

CaseJson == Extract(JSON_EXTENSION, parseJsonFile(content.s))

\* a dispatch that hands a file of unknown extension to the .http extractor
CaseDefaultAsHttp ==
    /\ pc = "read"
    /\ Extension \notin {HTTP_EXTENSION, TXT_EXTENSION, JSON_EXTENSION}
    /\ inspected' = TRUE
    /\ result' = CatchBlock(filePath, parseHttpFile(content.s))
    /\ pc' = "done"
    /\ UNCHANGED <<filePath, fileOnDisk, content, contentRead,
                   restCallResponse, rootName, interfaceMap, output,
                   calls, apiVars, validationVars, moreVars>>

CaseDefault ==
    /\ pc = "read"
    /\ Extension \notin {HTTP_EXTENSION, TXT_EXTENSION, JSON_EXTENSION}
    /\ result' = CatchBlock(filePath,
                            [ok |-> FALSE,
                             err |-> FileParseError(filePath,
                                         [text |-> sUnsupported,
                                          arg |-> Extension])])
    /\ pc' = "done"
    /\ UNCHANGED <<filePath, fileOnDisk, content, contentRead, inspected,
                   restCallResponse, rootName, interfaceMap, output,
                   calls, apiVars, validationVars, moreVars>>

NextParse ==
    \/ ReadFile
    \/ ReadFileFails
    \/ CaseHttp
    \/ CaseTxt
    \/ CaseJson
    \/ CaseDefault

SpecParse == InitParse /\ [][NextParse]_vars

-----------------------------------------------------------------------------
(* mapResponseToType: the interface-tree inference.  A type name, a line   *)
(* and the returned text are strings; the InterfaceMap is the sequence of   *)
(* <<name, text>> pairs in the order Object.values gives for names that     *)
(* are not array indexes: the order of first assignment.                    *)

MaxFields == 2

sNullType == <<"n", "u", "l", "l">>
sAnyArray == <<"a", "n", "y", "[", "]">>
sBrackets == <<"[", "]">>
sStringType == <<"s", "t", "r", "i", "n", "g">>
sBooleanType == <<"b", "o", "o", "l", "e", "a", "n">>
sNumberType == <<"n", "u", "m", "b", "e", "r">>
sAnyType == <<"a", "n", "y">>
sInterface == <<"i", "n", "t", "e", "r", "f", "a", "c", "e", " ">>

\* inputString.replace(/[^a-zA-Z0-9]/g, ' ')
ReplaceNonAlnum(s) == [i \in 1..Len(s) |-> IF IsAlnum(s[i]) THEN s[i] ELSE " "]

\* s.replace(/\s+(.)/g, (_, group1) => group1.toUpperCase()) on a string of
\* letters, digits and spaces: a run of spaces goes and the character after
\* it is upper-cased; of a run that ends the string its last space stays,
\* being the (.) of the match or, for a single space, not matched at all
UpperAfterSpaces(s) ==
    LET char(i) ==
            IF s[i] # " " /\ i > 1 /\ s[i - 1] = " " THEN UpperChar(s[i])
            ELSE s[i]
        pick(kept) == [m \in 1..Cardinality(kept) |-> char(Nth(kept, m))]
    IN  pick({i \in 1..Len(s) : s[i] # " " \/ i = Len(s)})

\* s.replace(/^\w/, (character) => character.toUpperCase())
UpperFirst(s) ==
    IF s # <<>> /\ (IsAlnum(s[1]) \/ s[1] = "_")
    THEN <<UpperChar(s[1])>> \o Tail(s)
    ELSE s

convertToPascalCase(inputString) ==
    UpperFirst(UpperAfterSpaces(ReplaceNonAlnum(inputString)))

\* an isOptional that takes every falsy value for a missing one
isOptionalFalsy(value) == ~Truthy(value)

isOptional(value) == value.t = "undefined" \/ value.t = "null"

\* Object.entries(obj): the own pairs of an object, the indexes and elements
\* of an array, the indexes and characters of a string, nothing otherwise
Entries(obj) ==
    CASE obj.t = "obj" -> obj.fields
      [] obj.t = "arr" ->
             [i \in 1..Len(obj.items) |-> <<NatToString(i - 1), obj.items[i]>>]
      [] obj.t = "str" ->
             [i \in 1..Len(obj.s) |-> <<NatToString(i - 1), Str(<<obj.s[i]>>)>>]
      [] OTHER -> <<>>

\* what inferType returns and what it left in the shared map
Inferred(type, interfaces) == [type |-> type, interfaces |-> interfaces]

RECURSIVE inferType(_, _, _, _)
RECURSIVE generateTypeFromObject(_, _, _)
RECURSIVE FieldLoop(_, _, _, _, _)

\* an inferType that resolves an array from its last element
inferTypeFromLast(key, value, interfaces, parentTypeName) ==
    LET array(last) == Inferred(last.type \o sBrackets, last.interfaces)
        object(nestedTypeName) ==
            Inferred(nestedTypeName,
                     generateTypeFromObject(value, nestedTypeName, interfaces))
    IN  CASE value.t = "null" -> Inferred(sNullType, interfaces)
          [] value.t = "arr" ->
                 IF Len(value.items) = 0 THEN Inferred(sAnyArray, interfaces)
                 ELSE array(inferType(key, value.items[Len(value.items)],
                                      interfaces, parentTypeName))
          [] value.t = "obj" ->
                 object(convertToPascalCase(parentTypeName \o <<"_">> \o key))
          [] value.t = "str" -> Inferred(sStringType, interfaces)
          [] value.t = "bool" -> Inferred(sBooleanType, interfaces)
          [] value.t = "num" -> Inferred(sNumberType, interfaces)
          [] OTHER -> Inferred(sAnyType, interfaces)

inferType(key, value, interfaces, parentTypeName) ==
    LET array(first) == Inferred(first.type \o sBrackets, first.interfaces)
        object(nestedTypeName) ==
            Inferred(nestedTypeName,
                     generateTypeFromObject(value, nestedTypeName, interfaces))
    IN  CASE value.t = "null" -> Inferred(sNullType, interfaces)
          [] value.t = "arr" ->
                 IF Len(value.items) = 0 THEN Inferred(sAnyArray, interfaces)
                 ELSE array(inferType(key, value.items[1], interfaces,
                                      parentTypeName))
          [] value.t = "obj" ->
                 object(convertToPascalCase(parentTypeName \o <<"_">> \o key))
          [] value.t = "str" -> Inferred(sStringType, interfaces)
          [] value.t = "bool" -> Inferred(sBooleanType, interfaces)
          [] value.t = "num" -> Inferred(sNumberType, interfaces)
          [] OTHER -> Inferred(sAnyType, interfaces)

\* `  ${key}${optionalFlag}: ${fieldType};`
FieldLine(key, value, fieldType) ==
    <<" ", " ">> \o key \o (IF isOptional(value) THEN <<"?">> ELSE <<>>)
        \o <<":", " ">> \o fieldType \o <<";">>

\* the for loop of generateTypeFromObject from the n-th entry on, then the
\* closing line and the assignment to the map
FieldLoop(entries, n, typeName, lines, interfaces) ==
    LET push(key, value, inferred) ==
            FieldLoop(entries, n + 1, typeName,
                      Append(lines, FieldLine(key, value, inferred.type)),
                      inferred.interfaces)
        entry(key, value) ==
            push(key, value, inferType(key, value, interfaces, typeName))
    IN  IF n > Len(entries)
        THEN PutField(interfaces, typeName,
                      Join(Append(lines, <<"}">>), <<"\n">>))
        ELSE entry(entries[n][1], entries[n][2])

\* a generateTypeFromObject that enters its name in the map before it
\* descends into the fields
generateTypeFromObjectNameFirst(obj, typeName, interfaces) ==
    FieldLoop(Entries(obj), 1, typeName,
              <<sInterface \o typeName \o <<" ", "{">> >>,
              PutField(interfaces, typeName, <<>>))

generateTypeFromObject(obj, typeName, interfaces) ==
    FieldLoop(Entries(obj), 1, typeName,
              <<sInterface \o typeName \o <<" ", "{">> >>, interfaces)

\* a validateResponseBody without the Array.isArray test
validateResponseBodyNoArrayTest(responseBody) ==
    IF ~Truthy(responseBody) \/ responseBody.t \notin {"obj", "arr"}
    THEN Thrown("Error", "Response body must be a non-null object", <<>>)
    ELSE [ok |-> TRUE, val |-> responseBody]

validateResponseBody(responseBody) ==
    IF ~Truthy(responseBody) \/ responseBody.t \notin {"obj", "arr"}
           \/ responseBody.t = "arr"
    THEN Thrown("Error", "Response body must be a non-null object", <<>>)
    ELSE [ok |-> TRUE, val |-> responseBody]

\* an Object.values that gives the newest record first
ValuesNewestFirst(interfaces) ==
    [i \in 1..Len(interfaces) |-> interfaces[Len(interfaces) + 1 - i][2]]

\* Object.values(interfaces)
Values(interfaces) == [i \in 1..Len(interfaces) |-> interfaces[i][2]]

\* a generateResponseType whose map outlives the call
TryBlockSharedMap(apiResponse, name) ==
    LET join(map) ==
            [ok |-> TRUE, interfaces |-> map,
             val |-> Join(Values(map), <<"\n", "\n">>)]
        generate(validated) ==
            IF ~validated.ok THEN validated
            ELSE join(generateTypeFromObject(validated.val,
                                             convertToPascalCase(name),
                                             interfaceMap))
    IN  generate(validateResponseBody(apiResponse.responseBody))

\* what the try block of generateResponseType leaves: the map and the text
\* returned, or the error thrown inside
TryBlock(apiResponse, name) ==
    LET join(map) ==
            [ok |-> TRUE, interfaces |-> map,
             val |-> Join(Values(map), <<"\n", "\n">>)]
        generate(validated) ==
            IF ~validated.ok THEN validated
            ELSE join(generateTypeFromObject(validated.val,
                                             convertToPascalCase(name), <<>>))
    IN  generate(validateResponseBody(apiResponse.responseBody))

ResponseTypeGenerationError == [name |-> "ResponseTypeGenerationError"]

Returned(value) == [kind |-> "returned", value |-> value]
Threw(error) == [kind |-> "threw", error |-> error]

-----------------------------------------------------------------------------
(* The responses the model infers types for: an object of up to MaxFields  *)
(* fields or another kind of value, and the root name handed in             *)

sProfile == <<"p", "r", "o", "f", "i", "l", "e">>
sProfileUpper == <<"P", "r", "o", "f", "i", "l", "e">>
sFlag == <<"f", "l", "a", "g">>
sAge == <<"a", "g", "e">>

FieldKeys == {sProfile, sProfileUpper, sFlag}

FieldValues ==
    { Undef, Null, Bool(FALSE), Num(0), Str(<<>>),
      Arr(<<>>),
      Arr(<<Num(1), Num(2)>>),
      Arr(<<Str(<<"a", "d", "m", "i", "n">>), Str(<<"u", "s", "e", "r">>)>>),
      Arr(<<Num(1), Str(<<"x">>)>>),
      Arr(<<Obj(<< <<sAge, Num(1)>> >>), Num(1)>>),
      Arr(<<Arr(<<>>), Num(1)>>),
      Obj(<<>>),
      Obj(<< <<sAge, Num(1)>> >>),
      Obj(<< <<sAge, Obj(<<>>)>> >>),
      Obj(<< <<sAge, Null>> >>) }

\* the own pairs of an object literal: no key twice
FieldSeqs ==
    {f \in SeqsUpTo(FieldKeys \X FieldValues, MaxFields) :
        \A m, n \in 1..Len(f) : f[m][1] = f[n][1] => m = n}

ResponseBodies ==
    {Obj(f) : f \in FieldSeqs}
        \cup {Undef, Null, Arr(<<>>), Arr(<<Num(1)>>), Num(0), Num(1), Str(<<>>),
              Str(<<"x">>), Bool(FALSE), Bool(TRUE)}

RootNames == {<<"A", "c", "c", "o", "u", "n", "t">>, <<"a", "p", "i", "_", "r", "e", "s", "p", "o", "n", "s", "e">>}

-----------------------------------------------------------------------------
(* generateResponseType as a state machine: one call, which returns the     *)
(* text of the interfaces or throws                                         *)

InitInfer ==
    /\ pc = "generating"
    /\ filePath = <<>>
    /\ fileOnDisk = NotOnDisk
    /\ content = Undef
    /\ contentRead = FALSE
    /\ inspected = FALSE
    /\ result = Pending
    /\ \E b \in ResponseBodies : restCallResponse = [responseBody |-> b]
    /\ rootName \in RootNames
    /\ interfaceMap = <<>>
    /\ output = Pending
    /\ calls = <<>>
    /\ callParameters = Undef
    /\ network = Undef
    /\ requestsIssued = 0
    /\ callResult = Pending
    /\ programArguments = Undef
    /\ fileSystem = Undef
    /\ validationResults = <<>>
    /\ validationOutcome = Pending
    /\ MoreIdle

GenerateReturns ==
    LET return(try) ==
            /\ try.ok
            /\ interfaceMap' = try.interfaces
            /\ output' = Returned(try.val)
    IN  /\ pc = "generating"
        /\ return(TryBlock(restCallResponse, rootName))
        /\ pc' = "generated"
        /\ UNCHANGED <<filePath, fileOnDisk, content, contentRead, inspected,
                       result, restCallResponse, rootName,
                       calls, apiVars, validationVars, moreVars>>

\* the catch block: whatever was thrown, a ResponseTypeGenerationError leaves
GenerateThrows ==
    /\ pc = "generating"
    /\ ~TryBlock(restCallResponse, rootName).ok
    /\ output' = Threw(ResponseTypeGenerationError)
    /\ pc' = "generated"
    /\ UNCHANGED <<filePath, fileOnDisk, content, contentRead, inspected,
                   result, restCallResponse, rootName, interfaceMap,
                   calls, apiVars, validationVars, moreVars>>

NextInfer ==
    \/ GenerateReturns
    \/ GenerateThrows

SpecInfer == InitInfer /\ [][NextInfer]_vars

-----------------------------------------------------------------------------
(* What a finished invocation of parseProvidedFile is judged against: the   *)
(* parts of the file's content that the contract of the extractors names    *)

Done == pc = "done"
ReturnedDescription == pc = "done" /\ result.kind = "resolved"
ThrewFileParseError ==
    pc = "done" /\ result.kind = "rejected"
        /\ result.error.name = "FileParseError"

Supported == Extension \in {HTTP_EXTENSION, TXT_EXTENSION, JSON_EXTENSION}

FileLines == splitAndFilterLines(content.s)
Tokens == extractTokensFromRequest(content.s)
Request == JsonParse(content.s)

\* the header map the extractor of the file's format builds
ExtractedHeaders ==
    CASE Extension = HTTP_EXTENSION ->
             createRecordOfHeaders(FileLines, 1).headers
      [] Extension = TXT_EXTENSION -> extractHeaders(Tokens)
      [] Extension = JSON_EXTENSION ->
             extractHeadersFromRequest(Request.val).val

AuthorizationKeys == {sAuthorizationUpper, sAuthorizationLower}

sBearerSpace == <<"B", "e", "a", "r", "e", "r", " ">>

\* the value of the header is `Bearer <token>`
IsBearerValue(v) ==
    v.t = "str" /\ StartsWith(v.s, sBearerSpace) /\ Len(v.s) > Len(sBearerSpace)

\* the value of the header names another scheme
IsOtherScheme(v) ==
    v.t = "str" /\ ~StartsWith(ToLowerCase(v.s), sBearerLower)

\* C1: for each of the three formats, when the header map the extractor built
\* holds an Authorization or authorization header with the value
\* `Bearer <token>`, the returned description has authToken = <token> and its
\* requestHeaders no longer holds that header.
C1_BearerLifted ==
    LET lifted(h, d) ==
            \A key \in AuthorizationKeys :
                Has(h, key) /\ IsBearerValue(Get(h, key)) =>
                    /\ d.authToken = Str(SliceFrom(Get(h, key).s,
                                                   Len(sBearerSpace)))
                    /\ ~Has(d.requestHeaders, key)
    IN  ReturnedDescription => lifted(ExtractedHeaders, result.value)

\* C2: for each of the three formats, when the Authorization header names a
\* scheme other than bearer, the returned description keeps that header
\* unchanged in requestHeaders and its authToken is undefined.
C2_OtherSchemeUntouched ==
    LET untouched(h, d) ==
            \A key \in AuthorizationKeys :
                Has(h, key) /\ IsOtherScheme(Get(h, key)) =>
                    /\ Get(d.requestHeaders, key) = Get(h, key)
                    /\ d.authToken = Undef
    IN  ReturnedDescription => untouched(ExtractedHeaders, result.value)

IsBodyLine(line) == StartsWith(line, <<"{">>) \/ StartsWith(line, <<"[">>)

DataFlags == {fD, fData, fDataRaw, fDataBinary}

\* the 1-based indexes of the lines that start a body, of the tokens that
\* follow a data flag
BodyLineIndexes(lines) == {i \in 2..Len(lines) : IsBodyLine(lines[i])}
DataTokenIndexes(tokens) ==
    {i \in 2..Len(tokens) : tokens[i - 1] \in DataFlags}

\* the request line or the URL of the file is one its extractor accepts
ValidRequestLine ==
    CASE Extension = HTTP_EXTENSION -> extractMethodAndUrl(FileLines).ok
      [] Extension = TXT_EXTENSION -> extractUrl(Tokens).ok
      [] Extension = JSON_EXTENSION ->
             Request.ok /\ Truthy(Get(Request.val, sUrl))

\* the file has no body segment
NoBodySegment ==
    CASE Extension = HTTP_EXTENSION -> BodyLineIndexes(FileLines) = {}
      [] Extension = TXT_EXTENSION -> DataTokenIndexes(Tokens) = {}
      [] Extension = JSON_EXTENSION ->
             Get(Get(Request.val, sBody), sRaw) = Undef

\* C3: for each of the three formats, a file with a valid request line or URL
\* and no body segment is parsed successfully and its requestBody is
\* undefined.
C3_NoBodyIsAbsent ==
    Done /\ contentRead /\ Supported /\ ValidRequestLine /\ NoBodySegment =>
        ReturnedDescription /\ result.value.requestBody = Undef

\* [exists, text]: the text of the body segment, when the file has one
Segment(text) == [exists |-> TRUE, text |-> text]
NoSegment == [exists |-> FALSE]

\* the body segment: the .http lines from the first body line on, the token
\* after the first data flag, the collection's body.raw
BodySegment ==
    LET lines(l, at) ==
            IF at = {} THEN NoSegment
            ELSE Segment(Join(SliceFrom(l, Min(at) - 1), <<"\n">>))
        token(t, at) == IF at = {} THEN NoSegment ELSE Segment(t[Min(at)].s)
        raw(v) == IF v.t = "str" THEN Segment(v.s) ELSE NoSegment
    IN  CASE Extension = HTTP_EXTENSION ->
                 lines(FileLines, BodyLineIndexes(FileLines))
          [] Extension = TXT_EXTENSION ->
                 token(Tokens, DataTokenIndexes(Tokens))
          [] Extension = JSON_EXTENSION ->
                 IF Request.ok THEN raw(Get(Get(Request.val, sBody), sRaw))
                 ELSE NoSegment

\* the same, with the data flags whose token is empty passed over
NonEmptyBodySegment ==
    LET token(t, at) == IF at = {} THEN NoSegment ELSE Segment(t[Min(at)].s)
    IN  IF Extension = TXT_EXTENSION
        THEN token(Tokens, {i \in DataTokenIndexes(Tokens) : Tokens[i].s # <<>>})
        ELSE BodySegment

IsInvalidJson(segment) == segment.exists /\ ~JsonParse(segment.text).ok

IsNonEmptyInvalidJson(segment) ==
    segment.exists /\ segment.text # <<>> /\ ~JsonParse(segment.text).ok

\* C4 as stated: for each of the three formats, a body segment that is not
\* valid JSON makes parseProvidedFile throw a FileParseError.
C4_InvalidBodyThrows ==
    Done /\ contentRead /\ Supported /\ IsInvalidJson(BodySegment) =>
        ThrewFileParseError

\* C4 amended: for each of the three formats, a non-empty body segment (for
\* cURL the token after the first data flag that has a non-empty token) that
\* is not valid JSON makes parseProvidedFile throw a FileParseError; it never
\* returns a description.
C4_NonEmptyInvalidBodyThrows ==
    Done /\ contentRead /\ Supported
        /\ IsNonEmptyInvalidJson(NonEmptyBodySegment) =>
            ThrewFileParseError

\* a cURL file whose data token is not valid JSON has been rejected for it
C4_Witness ==
    /\ ThrewFileParseError
    /\ Extension = TXT_EXTENSION
    /\ contentRead
    /\ IsNonEmptyInvalidJson(NonEmptyBodySegment)
    /\ result.error.message.message.text = "Invalid JSON body in curl command"

\* C5 as stated: a path with an unsupported extension is rejected with the
\* FileParseError 'Unsupported file type' before any content of the file is
\* read or inspected.
C5_UnsupportedBeforeRead ==
    Done /\ ~Supported =>
        /\ ThrewFileParseError
        /\ result.error.message.message.text = sUnsupported
        /\ ~contentRead
        /\ ~inspected

\* C5 amended: parseProvidedFile reads the file before it looks at the
\* extension.  A readable file with an unsupported extension is rejected with
\* the FileParseError 'Unsupported file type: <extension>' after its content
\* was read and without any extractor inspecting it; an unreadable one is
\* rejected with the FileParseError of the read failure.
C5_UnsupportedAfterRead ==
    Done /\ ~Supported =>
        /\ ThrewFileParseError
        /\ ~inspected
        /\ IF fileOnDisk.exists
           THEN /\ contentRead
                /\ result.error.message.message
                       = [text |-> sUnsupported, arg |-> Extension]
           ELSE /\ ~contentRead
                /\ result.error.message.message.text = sENOENT

\* a readable file with an unsupported extension has been rejected
C5_Witness ==
    /\ ThrewFileParseError
    /\ ~Supported
    /\ fileOnDisk.exists
    /\ contentRead
    /\ result.error.message.message.text = sUnsupported

\* what the step that failed threw: the read, the dispatch or the extractor
UnderlyingMessage ==
    IF ~fileOnDisk.exists THEN sENOENT
    ELSE CASE Extension = HTTP_EXTENSION -> parseHttpFile(content.s).err.text
           [] Extension = TXT_EXTENSION -> parseTxtFile(content.s).err.text
           [] Extension = JSON_EXTENSION -> parseJsonFile(content.s).err.text
           [] OTHER -> sUnsupported

\* every member of apiParameters is set, the required ones to strings
IsComplete(d) ==
    /\ DOMAIN d = {"targetUrl", "httpMethod", "authToken", "requestHeaders",
                   "requestBody", "queryParams"}
    /\ d.targetUrl.t = "str"
    /\ d.httpMethod.t = "str"
    /\ d.httpMethod.s = ToUpperCase(d.httpMethod.s)
    /\ d.authToken.t \in {"str", "undefined"}
    /\ d.requestHeaders.t \in {"obj", "undefined"}
    /\ d.requestHeaders.t = "obj" => KeyCount(d.requestHeaders) > 0
    /\ d.requestBody.t \in {"undefined", "obj", "arr"}
    /\ d.queryParams = Undef

\* C6: every invocation of parseProvidedFile either returns a complete
\* request description or throws a FileParseError whose message holds the
\* file path and the message of the underlying failure; no other error
\* escapes.
C6_DescriptionOrFileParseError ==
    Done =>
        \/ ReturnedDescription /\ IsComplete(result.value)
        \/ /\ ThrewFileParseError
           /\ result.error.message.prefix = "Failed to parse input file"
           /\ result.error.message.filePath = filePath
           /\ result.error.message.message.text = UnderlyingMessage

\* the failure of an extractor has been wrapped
C6_Witness ==
    /\ ThrewFileParseError
    /\ inspected
    /\ result.error.message.filePath = filePath
    /\ result.error.message.message.text = "Invalid request line"

-----------------------------------------------------------------------------
(* What a finished call of generateResponseType is judged against: the      *)
(* objects of the response that inference names, and their records          *)

Generated == pc = "generated"
ReturnedText == pc = "generated" /\ output.kind = "returned"

ResponseBody == restCallResponse.responseBody
RootTypeName == convertToPascalCase(rootName)

\* the value inference looks at for a field: an array stands for its first
\* element
RECURSIVE ElementZero(_)
ElementZero(value) ==
    IF value.t = "arr" /\ Len(value.items) > 0 THEN ElementZero(value.items[1])
    ELSE value

\* the objects below the object at `path` named typeName that inference
\* gives a type: [path, parent, key, name, value, direct], direct telling
\* that the object is the value of the field itself
RECURSIVE NamedBelow(_, _, _)
NamedBelow(obj, typeName, path) ==
    LET below(key, value, inner, name) ==
            IF inner.t # "obj" THEN {}
            ELSE {[path |-> Append(path, key), parent |-> typeName,
                   key |-> key, name |-> name, value |-> inner,
                   direct |-> value.t = "obj"]}
                     \cup NamedBelow(inner, name, Append(path, key))
        field(key, value) ==
            below(key, value, ElementZero(value),
                  convertToPascalCase(typeName \o <<"_">> \o key))
    IN  UNION {field(obj.fields[n][1], obj.fields[n][2]) :
                   n \in 1..Len(obj.fields)}

Named == NamedBelow(ResponseBody, RootTypeName, <<>>)

\* no name was generated for two objects
NoCollision ==
    LET distinct(named, root) ==
            /\ \A o \in named : o.name # root
            /\ \A o, p \in named : o.name = p.name => o.path = p.path
    IN  distinct(Named, RootTypeName)

Recorded(name) == \E i \in 1..Len(interfaceMap) : interfaceMap[i][1] = name
Position(name) == CHOOSE i \in 1..Len(interfaceMap) : interfaceMap[i][1] = name
RecordLines(name) == Split(interfaceMap[Position(name)][2], "\n")

\* the record of `parent` has the line `  key: Name;`
References(parent, key, name) ==
    LET has(lines) ==
            \E l \in 1..Len(lines) :
                lines[l] = <<" ", " ">> \o key \o <<":", " ">> \o name \o <<";">>
    IN  has(RecordLines(parent))

\* the names in the order in which generateTypeFromObject finishes the
\* objects: those below the fields n, n + 1, ... of obj, then typeName
RECURSIVE CreatedFrom(_, _, _)
CreatedFrom(obj, typeName, n) ==
    LET below(inner, name) ==
            IF inner.t = "obj" THEN CreatedFrom(inner, name, 1) ELSE <<>>
    IN  IF n > Len(obj.fields) THEN <<typeName>>
        ELSE below(ElementZero(obj.fields[n][2]),
                   convertToPascalCase(typeName \o <<"_">> \o obj.fields[n][1]))
                 \o CreatedFrom(obj, typeName, n + 1)

\* a sequence without the repetitions of its elements
FirstOccurrences(names) ==
    LET pick(first) == [m \in 1..Cardinality(first) |-> names[Nth(first, m)]]
    IN  pick({i \in 1..Len(names) : \A j \in 1..(i - 1) : names[j] # names[i]})

\* C7: generateResponseType throws ResponseTypeGenerationError when the
\* response body is undefined, null, an array or a primitive, returns a text
\* of interfaces for every object, and throws nothing else.
C7_ObjectOrGenerationError ==
    Generated =>
        IF ResponseBody.t = "obj"
        THEN /\ output.kind = "returned"
             /\ StartsWith(output.value, sInterface)
             /\ output.value = Join(Values(interfaceMap), <<"\n", "\n">>)
        ELSE output = Threw(ResponseTypeGenerationError)

\* an array at the root has been rejected
C7_Witness ==
    /\ Generated
    /\ ResponseBody.t = "arr"
    /\ output = Threw(ResponseTypeGenerationError)

\* what C8 says of the objects that are the value of a field
NestedBeforeParent(named) ==
    \A o \in named :
        o.direct =>
            /\ Recorded(o.name)
            /\ Recorded(o.parent)
            /\ References(o.parent, o.key, o.name)
            /\ Position(o.name) < Position(o.parent)

OwnRecords ==
    {[name |-> RootTypeName, value |-> ResponseBody]}
        \cup (IF NoCollision
              THEN {[name |-> o.name, value |-> o.value] : o \in Named}
              ELSE {})

\* the line of the n-th field in the record of the object o
LineOf(o, n) == RecordLines(o.name)[n + 1]

\* C9: a field is rendered with the marker `?` if and only if its value is
\* null or undefined (0, '' and false are rendered without), and a null
\* field is typed null: `key?: null;`.
C9_OptionalIffNullOrUndefined ==
    LET rendered(line, key, value) ==
            /\ value.t \in {"null", "undefined"}
                   <=> StartsWith(line, <<" ", " ">> \o key \o <<"?", ":", " ">>)
            /\ value.t \notin {"null", "undefined"}
                   <=> StartsWith(line, <<" ", " ">> \o key \o <<":", " ">>)
            /\ value.t = "null"
                   => line = <<" ", " ">> \o key \o <<"?", ":", " ", "n", "u", "l", "l", ";">>
    IN  ReturnedText =>
            \A o \in OwnRecords :
                \A n \in 1..Len(o.value.fields) :
                    rendered(LineOf(o, n), o.value.fields[n][1],
                             o.value.fields[n][2])

\* {flag: null} has been rendered as `flag?: null;` and a field that is
\* false without the marker
C9_Witness ==
    /\ ReturnedText
    /\ Len(ResponseBody.fields) = 2
    /\ ResponseBody.fields[1] = <<sFlag, Null>>
    /\ ResponseBody.fields[2] = <<sProfile, Bool(FALSE)>>
    /\ RecordLines(RootTypeName)[2] = <<" ", " ", "f", "l", "a", "g", "?", ":", " ", "n", "u", "l", "l", ";">>
    /\ RecordLines(RootTypeName)[3] = <<" ", " ", "p", "r", "o", "f", "i", "l", "e", ":", " ", "b", "o", "o", "l", "e", "a", "n", ";">>

\* C10: an array field is typed any[] when the array is empty and otherwise
\* T[] with T the type resolved for element 0; the elements after it never
\* matter ([1, 2] gives number[], ['admin', 'user'] gives string[]).
C10_ArrayTypeFromElementZero ==
    LET typed(line, key, type) ==
            line = <<" ", " ">> \o key \o <<":", " ">> \o type \o <<";">>
        array(line, key, items, parent) ==
            /\ Len(items) = 0 => typed(line, key, sAnyArray)
            /\ Len(items) > 0 =>
                   typed(line, key,
                         inferType(key, items[1], <<>>, parent).type
                             \o sBrackets)
            /\ Len(items) > 0 /\ items[1].t = "num" =>
                   typed(line, key, <<"n", "u", "m", "b", "e", "r", "[", "]">>)
            /\ Len(items) > 0 /\ items[1].t = "str" =>
                   typed(line, key, <<"s", "t", "r", "i", "n", "g", "[", "]">>)
    IN  /\ Generated /\ ResponseBody.t = "obj" => output.kind = "returned"
        /\ ReturnedText =>
               \A o \in OwnRecords :
                   \A n \in 1..Len(o.value.fields) :
                       o.value.fields[n][2].t = "arr" =>
                           array(LineOf(o, n), o.value.fields[n][1],
                                 o.value.fields[n][2].items, o.name)

\* {flag: [], profile: [1, 'x']} has been typed any[] and number[]
C10_Witness ==
    /\ ReturnedText
    /\ Len(ResponseBody.fields) = 2
    /\ ResponseBody.fields[1] = <<sFlag, Arr(<<>>)>>
    /\ ResponseBody.fields[2] = <<sProfile, Arr(<<Num(1), Str(<<"x">>)>>)>>
    /\ RecordLines(RootTypeName)[2] = <<" ", " ", "f", "l", "a", "g", ":", " ", "a", "n", "y", "[", "]", ";">>
    /\ RecordLines(RootTypeName)[3] = <<" ", " ", "p", "r", "o", "f", "i", "l", "e", ":", " ", "n", "u", "m", "b", "e", "r", "[", "]", ";">>

-----------------------------------------------------------------------------
(* generateResponseType called again and again in one process: each call    *)
(* runs the try block of the function, whose map is the one of line 114      *)

MaxCalls == 3

RepeatBodies ==
    { Obj(<<>>),
      Obj(<< <<sProfile, Obj(<<>>)>> >>),
      Obj(<< <<sProfile, Arr(<<Num(1)>>)>>, <<sFlag, Null>> >>),
      Obj(<< <<sFlag, Obj(<< <<sAge, Num(1)>> >>)>> >>),
      Null,
      Arr(<<>>) }

InitRepeat ==
    /\ pc = "generating"
    /\ filePath = <<>>
    /\ fileOnDisk = NotOnDisk
    /\ content = Undef
    /\ contentRead = FALSE
    /\ inspected = FALSE
    /\ result = Pending
    /\ \E b \in RepeatBodies : restCallResponse = [responseBody |-> b]
    /\ rootName \in RootNames
    /\ interfaceMap = <<>>
    /\ output = Pending
    /\ calls = <<>>
    /\ callParameters = Undef
    /\ network = Undef
    /\ requestsIssued = 0
    /\ callResult = Pending
    /\ programArguments = Undef
    /\ fileSystem = Undef
    /\ validationResults = <<>>
    /\ validationOutcome = Pending
    /\ MoreIdle

\* the caller keeps what the call gave and calls generateResponseType again
CallAgain ==
    /\ pc = "generated"
    /\ Len(calls) + 1 < MaxCalls
    /\ calls' = Append(calls, [responseBody |-> restCallResponse.responseBody,
                               rootName |-> rootName,
                               output |-> output])
    /\ \E b \in RepeatBodies : restCallResponse' = [responseBody |-> b]
    /\ rootName' \in RootNames
    /\ output' = Pending
    /\ pc' = "generating"
    /\ UNCHANGED <<filePath, fileOnDisk, content, contentRead, inspected,
                   result, interfaceMap, apiVars, validationVars, moreVars>>

NextRepeat ==
    \/ GenerateReturns
    \/ GenerateThrows
    \/ CallAgain

SpecRepeat == InitRepeat /\ [][NextRepeat]_vars

\* the earlier calls that were given the value and the root name of this one
SameInputs ==
    {i \in 1..Len(calls) :
        /\ calls[i].responseBody = restCallResponse.responseBody
        /\ calls[i].rootName = rootName}

-----------------------------------------------------------------------------
(* What the cURL extractor is judged against: the command                    *)
(* curl -X M 'U' -H 'K: V' -d 'J' and the parts of a header entry           *)

sCurl == Str(<<"c", "u", "r", "l">>)

Colons(entry) == {i \in 1..Len(entry) : entry[i] = ":"}

\* the text of a header entry before its first colon and the text after it
BeforeFirstColon(entry) == SubSeq(entry, 1, Min(Colons(entry)) - 1)
AfterFirstColon(entry) == SubSeq(entry, Min(Colons(entry)) + 1, Len(entry))

\* the tokens are those of curl -X M 'U' -H 'K: V' -d 'J', U starts with http
\* and J is valid JSON
IsCurlCommand(tokens) ==
    /\ Len(tokens) = 8
    /\ tokens[1] = sCurl
    /\ tokens[2] = fX
    /\ StartsWith(tokens[4].s, sHttp)
    /\ tokens[5] = fH
    /\ Colons(tokens[6].s) # {}
    /\ Trim(BeforeFirstColon(tokens[6].s)) # <<>>
    /\ tokens[7] = fD
    /\ JsonParse(tokens[8].s).ok

\* the header K: V of the command is a bearer Authorization header
IsBearerEntry(entry) ==
    /\ Trim(BeforeFirstColon(entry)) \in AuthorizationKeys
    /\ StartsWith(ToLowerCase(Trim(AfterFirstColon(entry))), sBearerLower)

\* method, URL and body of the description are those of the command
CurlFields(tokens, d) ==
    /\ d.httpMethod = Str(ToUpperCase(tokens[3].s))
    /\ d.targetUrl = tokens[4]
    /\ d.requestBody = JsonParse(tokens[8].s).val

\* the description holds the header K with the value V
CurlHeader(entry, d) ==
    /\ Has(d.requestHeaders, Trim(BeforeFirstColon(entry)))
    /\ Get(d.requestHeaders, Trim(BeforeFirstColon(entry)))
           = Str(Trim(AfterFirstColon(entry)))

\* C12 as stated: curl -X M 'U' -H 'K: V' -d 'J' gives httpMethod M in upper
\* case, targetUrl U, requestHeaders with K mapped to V and requestBody the
\* parsed J.
C12_CurlCommandFields ==
    LET fields(tokens) ==
            IsCurlCommand(tokens) =>
                /\ ReturnedDescription
                /\ CurlFields(tokens, result.value)
                /\ CurlHeader(tokens[6].s, result.value)
    IN  Done /\ contentRead /\ Extension = TXT_EXTENSION => fields(Tokens)

\* C12 amended: curl -X M 'U' -H 'K: V' -d 'J' gives httpMethod M in upper
\* case, targetUrl U and requestBody the parsed J; requestHeaders holds K
\* mapped to V unless K: V is a bearer Authorization header, which is taken
\* out of the headers and given as authToken.
C12_CurlCommandFieldsUnlessBearer ==
    LET header(entry, d) ==
            IF IsBearerEntry(entry)
            THEN /\ d.requestHeaders = Undef
                 /\ d.authToken = StripBearer(Str(Trim(AfterFirstColon(entry))))
            ELSE CurlHeader(entry, d)
        fields(tokens) ==
            IsCurlCommand(tokens) =>
                /\ ReturnedDescription
                /\ CurlFields(tokens, result.value)
                /\ header(tokens[6].s, result.value)
    IN  Done /\ contentRead /\ Extension = TXT_EXTENSION => fields(Tokens)

\* curl -X post 'http/x' -H ' A : b ' -d '{"a":1}' has been parsed
C12_Witness ==
    /\ ReturnedDescription
    /\ Extension = TXT_EXTENSION
    /\ IsCurlCommand(Tokens)
    /\ ~IsBearerEntry(Tokens[6].s)
    /\ content.s[Len(content.s)] = "'"
    /\ result.value.httpMethod = Str(<<"P", "O", "S", "T">>)
    /\ result.value.targetUrl = Str(sUrlText)
    /\ result.value.requestHeaders = Obj(<< <<(<<"A">>), Str(<<"b">>)>> >>)
    /\ result.value.requestBody = Obj(<< <<(<<"a">>), Num(1)>> >>)

-----------------------------------------------------------------------------
(* What the httpMethod and the targetUrl of a description are judged against *)

\* the members of the type HTTP_METHOD
HTTP_METHOD ==
    { <<"G", "E", "T">>, <<"P", "O", "S", "T">>, <<"P", "U", "T">>,
      <<"D", "E", "L", "E", "T", "E">>, <<"P", "A", "T", "C", "H">>,
      <<"O", "P", "T", "I", "O", "N", "S">>, <<"H", "E", "A", "D">> }

\* the file names no method: a cURL command without a -X/--request that has
\* a value, a collection request without `method`
MethodOmitted ==
    CASE Extension = TXT_EXTENSION ->
             \A i \in 1..Len(Tokens) :
                 Tokens[i] \in {fX, fRequest} => i = Len(Tokens)
      [] Extension = JSON_EXTENSION -> ~Has(Request.val, sMethod)
      [] OTHER -> FALSE

\* C13: the httpMethod of every returned description is one of GET, POST,
\* PUT, DELETE, PATCH, OPTIONS, HEAD, and it is GET when the file names no
\* method.
C13_MethodInEnum ==
    ReturnedDescription =>
        /\ result.value.httpMethod.t = "str"
        /\ result.value.httpMethod.s \in HTTP_METHOD
        /\ MethodOmitted => result.value.httpMethod = Str(sGET)

\* the collection request has a `url` object in which no URL can be found:
\* no `raw`, and not both a `host` and a `path` array
UrlObjectWithoutUrl(request) ==
    /\ Get(request, sUrl).t = "obj"
    /\ ~Has(Get(request, sUrl), sRaw)
    /\ ~(Get(Get(request, sUrl), sHost).t = "arr"
            /\ Get(Get(request, sUrl), sPath).t = "arr")

\* C14: every returned description has a targetUrl that is a non-empty
\* string; a collection request whose `url` object has neither `raw` nor
\* both `host` and `path` arrays is refused and no description is returned.
C14_TargetUrlNonEmpty ==
    /\ ReturnedDescription =>
           /\ result.value.targetUrl.t = "str"
           /\ result.value.targetUrl.s # <<>>
    /\ Done /\ contentRead /\ Extension = JSON_EXTENSION /\ Request.ok
           /\ UrlObjectWithoutUrl(Request.val) => ThrewFileParseError

-----------------------------------------------------------------------------
(* callSuppliedApi: one call of axios, awaited; the response it resolves    *)
(* with is wrapped with the parameters, the error it rejects with is        *)
(* turned into an ApiCallError by the catch block                            *)

ApiCallError(statusCode, statusText) ==
    [name |-> "ApiCallError", statusCode |-> statusCode,
     statusText |-> statusText]

sBearerPrefix == <<"B", "e", "a", "r", "e", "r", " ">>
sHttpError == <<"H", "T", "T", "P", " ", "E", "r", "r", "o", "r">>
sNetworkError == "Network Error: Unable to reach the server"
sRequestError == "Request Error: "

\* { ...requestHeaders, ...(authToken ? {Authorization: ...} : {}) }
RequestHeaders(p) ==
    LET spread(h) == IF h.t = "obj" THEN h ELSE Obj(<<>>)
        merge(h, token) ==
            IF Truthy(token)
            THEN Put(h, sAuthorizationUpper, Str(sBearerPrefix \o token.s))
            ELSE h
    IN  merge(spread(p.requestHeaders), p.authToken)

\* the config handed to axios
RequestConfig(p) ==
    [method |-> p.httpMethod, url |-> p.targetUrl,
     headers |-> RequestHeaders(p), params |-> p.queryParams,
     data |-> p.requestBody]

\* what the request meets: a server that answers, no answer, or a failure
\* before anything is sent
Answer(status, statusText, data) ==
    [kind |-> "response", status |-> status, statusText |-> statusText,
     data |-> data]
NoAnswer == [kind |-> "no response"]
SetUpFailure(message) == [kind |-> "set-up", message |-> message]

\* axios(config): resolves with the response when its status is 2xx, and
\* rejects with an error that holds the response, the request alone, or
\* neither
Axios(config, met) ==
    IF met.kind = "response" /\ met.status >= 200 /\ met.status < 300
    THEN [ok |-> TRUE,
          val |-> [status |-> met.status, statusText |-> met.statusText,
                   data |-> met.data]]
    ELSE IF met.kind = "response"
    THEN [ok |-> FALSE,
          err |-> [response |-> Obj(<<>>), status |-> met.status,
                   statusText |-> met.statusText, request |-> Obj(<<>>)]]
    ELSE IF met.kind = "no response"
    THEN [ok |-> FALSE, err |-> [response |-> Undef, request |-> Obj(<<>>)]]
    ELSE [ok |-> FALSE,
          err |-> [response |-> Undef, request |-> Undef,
                   message |-> met.message]]

\* a catch block that answers with a response made of the error
CatchOfCallReturns(p, error) ==
    Resolved([response |-> [responseStatus |-> Str(<<>>),
                            responseCode |-> 500,
                            responseBody |-> Obj(<<>>)],
              requestUsed |-> p])

\* the catch block of callSuppliedApi
CatchOfCall(p, error) ==
    IF Truthy(error.response)
    THEN Rejected(ApiCallError(error.status,
                               IF error.statusText # <<>>
                               THEN error.statusText ELSE sHttpError))
    ELSE IF Truthy(error.request)
    THEN Rejected(ApiCallError(0, sNetworkError))
    ELSE Rejected(ApiCallError(0, <<sRequestError, error.message>>))

\* the value callSuppliedApi returns
CallResultOf(p, axiosResult) ==
    Resolved([response |-> [responseStatus |-> Str(axiosResult.statusText),
                            responseCode |-> axiosResult.status,
                            responseBody |-> axiosResult.data],
              requestUsed |-> p])

ApiParameterSets ==
    { [targetUrl |-> Str(sUrlText), httpMethod |-> Str(m), authToken |-> a,
       requestHeaders |-> h, queryParams |-> Undef, requestBody |-> b] :
        m \in {sGET, <<"P", "O", "S", "T">>},
        a \in {Undef, Str(<<"t">>), Str(<<>>)},
        h \in {Undef, Obj(<< <<(<<"A">>), Str(<<"b">>)>> >>),
               Obj(<< <<sAuthorizationUpper, Str(sBasicC)>> >>)},
        b \in {Undef, Obj(<< <<(<<"a">>), Num(1)>> >>)} }

NetworkOutcomes ==
    { Answer(200, <<"O", "K">>, Obj(<< <<(<<"a">>), Num(1)>> >>)),
      Answer(204, <<>>, Str(<<>>)),
      Answer(404, <<"N", "o", "t", " ", "F", "o", "u", "n", "d">>, Obj(<<>>)),
      Answer(500, <<>>, Null),
      NoAnswer,
      SetUpFailure("Invalid URL") }

InitApi ==
    /\ pc = "calling"
    /\ filePath = <<>>
    /\ fileOnDisk = NotOnDisk
    /\ content = Undef
    /\ contentRead = FALSE
    /\ inspected = FALSE
    /\ result = Pending
    /\ restCallResponse = [responseBody |-> Undef]
    /\ rootName = <<>>
    /\ interfaceMap = <<>>
    /\ output = Pending
    /\ calls = <<>>
    /\ callParameters \in ApiParameterSets
    /\ network \in NetworkOutcomes
    /\ requestsIssued = 0
    /\ callResult = Pending
    /\ programArguments = Undef
    /\ fileSystem = Undef
    /\ validationResults = <<>>
    /\ validationOutcome = Pending
    /\ MoreIdle

\* lines 46-68: the config is built and axios is called with it
CallAxios ==
    /\ pc = "calling"
    /\ requestsIssued' = requestsIssued + 1
    /\ pc' = "awaiting"
    /\ UNCHANGED <<filePath, fileOnDisk, content, contentRead, inspected,
                   result, restCallResponse, rootName, interfaceMap, output,
                   calls, callParameters, network, callResult,
                   validationVars, moreVars>>

\* lines 70-77: the awaited promise is fulfilled
AxiosResolves ==
    LET return(axiosResult) ==
            /\ axiosResult.ok
            /\ callResult' = CallResultOf(callParameters, axiosResult.val)
    IN  /\ pc = "awaiting"
        /\ return(Axios(RequestConfig(callParameters), network))
        /\ pc' = "settled"
        /\ UNCHANGED <<filePath, fileOnDisk, content, contentRead, inspected,
                       result, restCallResponse, rootName, interfaceMap,
                       output, calls, callParameters, network,
                       requestsIssued, validationVars, moreVars>>

\* lines 78-96: the awaited promise is rejected and the catch block runs
AxiosRejects ==
    LET catch(axiosResult) ==
            /\ ~axiosResult.ok
            /\ callResult' = CatchOfCall(callParameters, axiosResult.err)
    IN  /\ pc = "awaiting"
        /\ catch(Axios(RequestConfig(callParameters), network))
        /\ pc' = "settled"
        /\ UNCHANGED <<filePath, fileOnDisk, content, contentRead, inspected,
                       result, restCallResponse, rootName, interfaceMap,
                       output, calls, callParameters, network,
                       requestsIssued, validationVars, moreVars>>

NextApi ==
    \/ CallAxios
    \/ AxiosResolves
    \/ AxiosRejects

SpecApi == InitApi /\ [][NextApi]_vars

\* the request failed: an error status, no response, or a set-up error
RequestFailed ==
    \/ network.kind # "response"
    \/ network.status < 200
    \/ network.status >= 300

\* C15: callSuppliedApi calls axios once per invocation; when the request
\* fails (error status, no response, set-up error) it throws an ApiCallError
\* and issues no second request; when it succeeds it returns the status
\* text, the status and the body of the response with requestUsed equal to
\* the parameters it was given.
C15_OneRequestThenResultOrApiCallError ==
    /\ requestsIssued <= 1
    /\ pc \in {"awaiting", "settled"} => requestsIssued = 1
    /\ pc = "settled" /\ RequestFailed =>
           /\ callResult.kind = "rejected"
           /\ callResult.error.name = "ApiCallError"
    /\ pc = "settled" /\ ~RequestFailed =>
           /\ callResult.kind = "resolved"
           /\ callResult.value.response
                  = [responseStatus |-> Str(network.statusText),
                     responseCode |-> network.status,
                     responseBody |-> network.data]
           /\ callResult.value.requestUsed = callParameters

\* a call that met a 404 has thrown, after one request
C15_Witness ==
    /\ pc = "settled"
    /\ network.kind = "response"
    /\ network.status = 404
    /\ requestsIssued = 1
    /\ callParameters.authToken = Str(<<"t">>)
    /\ callResult = Rejected(ApiCallError(404, network.statusText))

-----------------------------------------------------------------------------
(* validationUtils: the four validations of the program arguments and       *)
(* validateProgramArguments, which throws when one of them fails             *)

createValidResult == [isValid |-> TRUE]

createInvalidResult(errorMessage) ==
    [isValid |-> FALSE, errorMessage |-> errorMessage]

\* on is what the file system holds at the path: [exists, readable]
validateFileExists(path, on) ==
    IF ~Truthy(path) \/ path = Str(<<>>)
    THEN createInvalidResult("Input file path does not exist.")
    ELSE IF ~on.exists
    THEN createInvalidResult("Input file path does not exist.")
    ELSE createValidResult

validateFileCanBeRead(path, on) ==
    IF ~Truthy(path) \/ Trim(path.s) = <<>>
    THEN createInvalidResult("Input file path does not exist.")
    ELSE IF ~on.readable
    THEN createInvalidResult("Input file cannot be read.")
    ELSE createValidResult

\* /^[A-Z][A-Za-z0-9_$]*$/
IsComponentIdentifier(s) ==
    /\ s # <<>>
    /\ IsUpper(s[1])
    /\ \A i \in 2..Len(s) : IsAlnum(s[i]) \/ s[i] \in {"_", "$"}

validateComponentName(componentName) ==
    LET checked(trimmed) ==
            IF Len(trimmed) = 0
            THEN createInvalidResult(
                     "Component name cannot be empty or only whitespace")
            ELSE IF ~IsUpper(trimmed[1])
            THEN createInvalidResult(
                     "Component name must start with an uppercase letter")
            ELSE IF ~IsComponentIdentifier(trimmed)
            THEN createInvalidResult(
                     "Component name contains invalid characters")
            ELSE IF Len(trimmed) > 100
            THEN createInvalidResult("Component name is too long")
            ELSE createValidResult
    IN  IF ~Truthy(componentName) \/ componentName.t # "str"
        THEN createInvalidResult(
                 "Component name is required and must be a string")
        ELSE checked(Trim(componentName.s))

\* /[<>:"|?*\x00-\x1f]/
IsInvalidPathChar(c) ==
    c \in {"<", ">", ":", "\"", "|", "?", "*", "\t", "\n", "\r"}

validateOutputPath(outputPath) ==
    LET checked(trimmed) ==
            IF Len(trimmed) = 0
            THEN createInvalidResult("Output path cannot be empty")
            ELSE IF \E i \in 1..Len(trimmed) : IsInvalidPathChar(trimmed[i])
            THEN createInvalidResult("Output path contains invalid characters")
            ELSE createValidResult
    IN  IF ~Truthy(outputPath) \/ outputPath.t # "str"
        THEN createInvalidResult("Output path is required and must be a string")
        ELSE checked(Trim(outputPath.s))

\* the error made of the failing validations; its constructor keeps none
ValidationError(validations) == [name |-> "ValidationError"]

\* a filter that looks at the file validations only
FailingFileValidations(results) ==
    SelectSeq(SubSeq(results, 1, 2), LAMBDA r : ~r.isValid)

\* validationResults.filter((result) => !result.isValid)
FailingValidations(results) == SelectSeq(results, LAMBDA r : ~r.isValid)

\* the array of lines 363-368
ValidationResults(args, on) ==
    << validateFileExists(args.filePath, on),
       validateFileCanBeRead(args.filePath, on),
       validateOutputPath(args.outputDirectory),
       validateComponentName(args.componentName) >>

FilePathArguments ==
    {Undef, Str(<<>>), Str(<<" ">>), Str(<<"f", ".", "h", "t", "t", "p">>)}

OutputDirectoryArguments ==
    {Undef, Str(<<>>), Str(<<" ">>), Str(<<"o", "u", "t">>),
     Str(<<"o", "<">>)}

ComponentNameArguments ==
    {Undef, Str(<<>>), Str(<<" ">>), Str(<<"u", "s", "e", "r">>),
     Str(<<"U", "s", "e", "r">>), Str(<<" ", "U", "s", "e", "r", " ">>),
     Str(<<"U", "-", "x">>), Str(<<"U", "_", "1", "$">>),
     Str([i \in 1..101 |-> "A"])}

FileSystems ==
    {[exists |-> FALSE, readable |-> FALSE],
     [exists |-> TRUE, readable |-> FALSE],
     [exists |-> TRUE, readable |-> TRUE]}

InitValidate ==
    /\ pc = "validating"
    /\ filePath = <<>>
    /\ fileOnDisk = NotOnDisk
    /\ content = Undef
    /\ contentRead = FALSE
    /\ inspected = FALSE
    /\ result = Pending
    /\ restCallResponse = [responseBody |-> Undef]
    /\ rootName = <<>>
    /\ interfaceMap = <<>>
    /\ output = Pending
    /\ calls = <<>>
    /\ callParameters = Undef
    /\ network = Undef
    /\ requestsIssued = 0
    /\ callResult = Pending
    /\ programArguments \in [filePath : FilePathArguments,
                             outputDirectory : OutputDirectoryArguments,
                             componentName : ComponentNameArguments]
    /\ fileSystem \in FileSystems
    /\ validationResults = <<>>
    /\ validationOutcome = Pending
    /\ MoreIdle

\* validateProgramArguments finds no failing validation and returns
ValidateReturns ==
    LET return(results) ==
            /\ Len(FailingValidations(results)) = 0
            /\ validationResults' = results
            /\ validationOutcome' = Returned(Undef)
    IN  /\ pc = "validating"
        /\ return(ValidationResults(programArguments, fileSystem))
        /\ pc' = "validated"
        /\ UNCHANGED <<filePath, fileOnDisk, content, contentRead, inspected,
                       result, restCallResponse, rootName, interfaceMap,
                       output, calls, apiVars, programArguments, fileSystem,
                       moreVars>>

\* validateProgramArguments finds failing validations and throws
ValidateThrows ==
    LET throw(results) ==
            /\ Len(FailingValidations(results)) # 0
            /\ validationResults' = results
            /\ validationOutcome'
                   = Threw(ValidationError(FailingValidations(results)))
    IN  /\ pc = "validating"
        /\ throw(ValidationResults(programArguments, fileSystem))
        /\ pc' = "validated"
        /\ UNCHANGED <<filePath, fileOnDisk, content, contentRead, inspected,
                       result, restCallResponse, rootName, interfaceMap,
                       output, calls, apiVars, programArguments, fileSystem,
                       moreVars>>

NextValidate ==
    \/ ValidateReturns
    \/ ValidateThrows

SpecValidate == InitValidate /\ [][NextValidate]_vars

\* C16: validateProgramArguments evaluates the four validations (file
\* exists, file readable, output path, component name) and throws a
\* ValidationError if and only if one of the four results has
\* isValid = false; when all four pass it returns.
C16_ThrowsIffSomeValidationFails ==
    pc = "validated" =>
        /\ validationResults
               = << validateFileExists(programArguments.filePath, fileSystem),
                    validateFileCanBeRead(programArguments.filePath,
                                          fileSystem),
                    validateOutputPath(programArguments.outputDirectory),
                    validateComponentName(programArguments.componentName) >>
        /\ (validationOutcome.kind = "threw"
                /\ validationOutcome.error.name = "ValidationError")
               <=> (\E i \in 1..4 : ~validationResults[i].isValid)
        /\ (\A i \in 1..4 : validationResults[i].isValid)
               => validationOutcome = Returned(Undef)

\* only the component name failed, and the call has thrown
C16_Witness ==
    /\ pc = "validated"
    /\ validationResults[1].isValid
    /\ validationResults[2].isValid
    /\ validationResults[3].isValid
    /\ ~validationResults[4].isValid
    /\ validationResults[4].errorMessage = "Component name is too long"
    /\ validationOutcome = Threw([name |-> "ValidationError"])

-----------------------------------------------------------------------------
(* What the .http extractor is judged against: the request line, the header *)
(* lines and the line the body starts at                                     *)

\* the number of white-space-separated tokens of a line
TokenCount(line) ==
    Cardinality({i \in 1..Len(line) :
                    ~IsSpace(line[i]) /\ (i = 1 \/ IsSpace(line[i - 1]))})

\* the number of tokens of the first non-empty line, 0 when there is none
RequestLineTokens ==
    IF FileLines = <<>> THEN 0 ELSE TokenCount(FileLines[1])

\* C17: the .http extractor goes on only when the first non-empty line has
\* exactly two tokens; for a missing first line, a single token or more than
\* two tokens it fails with the error 'Invalid request line'.
C17_ExactlyTwoTokens ==
    Done /\ contentRead /\ Extension = HTTP_EXTENSION
        /\ RequestLineTokens # 2 =>
            /\ ThrewFileParseError
            /\ result.error.message.message.text = "Invalid request line"

\* the 0-based index of the first line after the request line that starts
\* with { or [, the number of lines when there is none
DetectedBodyStart(lines) ==
    IF BodyLineIndexes(lines) = {} THEN Len(lines)
    ELSE Min(BodyLineIndexes(lines)) - 1

\* C18: createRecordOfHeaders returns as body start index the index of the
\* first line after the request line that starts with { or [ (the number of
\* lines when there is none), lines without a colon being skipped, so that
\* parseRequestBody parses the lines from that line to the end.
C18_BodyStartIsFirstBodyLine ==
    LET detected(lines, record) ==
            /\ record.bodyStartIndex = DetectedBodyStart(lines)
            /\ parseRequestBody(lines, record.bodyStartIndex)
                   = parseRequestBody(lines, DetectedBodyStart(lines))
        scanned(lines) ==
            lines # <<>> => detected(lines, createRecordOfHeaders(lines, 1))
    IN  Done /\ contentRead /\ Extension = HTTP_EXTENSION
            => scanned(FileLines)

\* the header entries of the file, in order: the lines between the request
\* line and the body, the tokens that follow a -H or --header
EntryTexts ==
    LET at(texts, indexes) ==
            [k \in 1..Cardinality(indexes) |-> texts[Nth(indexes, k)]]
        tokenTexts(tokens) ==
            at([i \in 1..Len(tokens) |-> tokens[i].s],
               {i \in 2..Len(tokens) : tokens[i - 1] \in {fH, fHeader}})
    IN  IF Extension = HTTP_EXTENSION
        THEN at(FileLines, 2..DetectedBodyStart(FileLines))
        ELSE tokenTexts(Tokens)

\* the key and the value an entry with a colon stands for
EntryKey(entry) == Trim(BeforeFirstColon(entry))
EntryValue(entry) == Str(Trim(AfterFirstColon(entry)))

\* the header map holds what the entries picked by kept stand for, the last
\* entry of a key giving its value, and nothing else
MapOfEntries(h, entries, kept) ==
    /\ \A n \in kept : Has(h, EntryKey(entries[n]))
    /\ \A f \in 1..Len(h.fields) :
           /\ \E n \in kept : EntryKey(entries[n]) = h.fields[f][1]
           /\ \A n \in kept :
                  /\ EntryKey(entries[n]) = h.fields[f][1]
                  /\ \A m \in kept :
                         EntryKey(entries[m]) = h.fields[f][1] => m <= n
                  => h.fields[f][2] = EntryValue(entries[n])
           /\ h.fields[f][1] = Trim(h.fields[f][1])
           /\ h.fields[f][2].s = Trim(h.fields[f][2].s)

\* C19 as stated: in the .http and the cURL extractor the header map holds,
\* for every entry that has a colon and a key (the trimmed text before the
\* first colon) that is not empty, that key with the trimmed text after the
\* first colon, later colons included; the other entries are skipped; every
\* key and value equals its own trim.
C19_SplitAtFirstColon ==
    LET split(h, entries) ==
            MapOfEntries(h, entries,
                         {n \in 1..Len(entries) :
                             /\ Colons(entries[n]) # {}
                             /\ EntryKey(entries[n]) # <<>>})
    IN  Done /\ contentRead /\ Extension \in {HTTP_EXTENSION, TXT_EXTENSION}
            => split(ExtractedHeaders, EntryTexts)

\* C19 amended: the same, the entries skipped being those without a colon
\* and those with no text at all before the first colon; an entry with
\* white space only before the colon is kept under the empty key.
C19_SplitAtFirstColonUntrimmedKey ==
    LET split(h, entries) ==
            MapOfEntries(h, entries,
                         {n \in 1..Len(entries) :
                             /\ Colons(entries[n]) # {}
                             /\ BeforeFirstColon(entries[n]) # <<>>})
    IN  Done /\ contentRead /\ Extension \in {HTTP_EXTENSION, TXT_EXTENSION}
            => split(ExtractedHeaders, EntryTexts)

\* curl http/x -H 'A : b:c' has been parsed: the value keeps its colon
C19_Witness ==
    /\ Done
    /\ contentRead
    /\ Extension = TXT_EXTENSION
    /\ Len(EntryTexts) = 1
    /\ Cardinality(Colons(EntryTexts[1])) = 2
    /\ ExtractedHeaders = Obj(<< <<(<<"A">>), Str(<<"b", ":", "c">>)>> >>)
    /\ ReturnedDescription
    /\ result.value.requestHeaders = ExtractedHeaders

\* the positions of the tokens that qualify as URL: starting with http, not
\* with -, and not standing right after one of the six flags
QualifyingTokens ==
    {i \in 1..Len(Tokens) :
        /\ Len(Tokens[i].s) >= 4
        /\ SubSeq(Tokens[i].s, 1, 4) = <<"h", "t", "t", "p">>
        /\ Tokens[i].s[1] # "-"
        /\ i > 1 => Tokens[i - 1] \notin {Str(<<"-", "X">>),
                                          Str(<<"-", "-", "r", "e", "q", "u", "e", "s", "t">>),
                                          Str(<<"-", "H">>),
                                          Str(<<"-", "-", "h", "e", "a", "d", "e", "r">>),
                                          Str(<<"-", "d">>),
                                          Str(<<"-", "-", "d", "a", "t", "a">>)}}

\* a token without the quote character it starts with and the one it ends with
Unquoted(token) ==
    LET from == IF token # <<>> /\ token[1] \in {"'", "\""} THEN 2 ELSE 1
        to == IF Len(token) >= from /\ token[Len(token)] \in {"'", "\""}
              THEN Len(token) - 1 ELSE Len(token)
    IN  SubSeq(token, from, to)

\* C20: extractUrl returns the first token that starts with http, does not
\* start with -, and does not stand right after -X, --request, -H, --header,
\* -d or --data, without the quote characters around it; when no token
\* qualifies it throws 'Could not determine URL ...', and parseProvidedFile
\* fails with that message.
C20_FirstQualifyingToken ==
    LET first(url, qualifying) ==
            IF qualifying = {}
            THEN /\ ~url.ok
                 /\ url.err.text
                        = "Could not determine URL from curl command."
                 /\ ThrewFileParseError
                 /\ result.error.message.message.text
                        = "Could not determine URL from curl command."
            ELSE /\ url.ok
                 /\ url.val = Unquoted(Tokens[Min(qualifying)].s)
                 /\ ReturnedDescription
                        => result.value.targetUrl = Str(url.val)
    IN  Done /\ contentRead /\ Extension = TXT_EXTENSION
            => first(extractUrl(Tokens), QualifyingTokens)

\* a command has been parsed in which tokens starting with http stand right
\* after a flag, before the token returned as URL
C20_Witness ==
    /\ Done
    /\ contentRead
    /\ Extension = TXT_EXTENSION
    /\ QualifyingTokens # {}
    /\ \E i \in 1..Len(Tokens) :
           /\ i < Min(QualifyingTokens)
           /\ StartsWith(Tokens[i].s, sHttp)
    /\ ReturnedDescription
    /\ result.value.targetUrl = Tokens[Min(QualifyingTokens)]

------------------------------------------------------------------------------
(* What the collection extractor is judged against *)

\* the texts of parts with sep between them
RECURSIVE PartsJoined(_, _)
PartsJoined(parts, sep) ==
    IF Len(parts) = 0 THEN <<>>
    ELSE IF Len(parts) = 1 THEN parts[1].s
    ELSE PartsJoined(SubSeq(parts, 1, Len(parts) - 1), sep)
             \o sep \o parts[Len(parts)].s

\* the member of the collection's url, undefined when there is none
UrlMember(key) ==
    LET member(url) ==
            IF url.t = "obj" /\ \E n \in 1..Len(url.fields) : url.fields[n][1] = key
            THEN url.fields[Max({n \in 1..Len(url.fields) :
                                    url.fields[n][1] = key})][2]
            ELSE [t |-> "undefined"]
    IN  member(Get(Request.val, <<"u", "r", "l">>))

\* the URL the collection stands for, by priority
UrlByPriority ==
    LET url == Get(Request.val, <<"u", "r", "l">>)
        raw == UrlMember(<<"r", "a", "w">>)
        host == UrlMember(<<"h", "o", "s", "t">>)
        path == UrlMember(<<"p", "a", "t", "h">>)
    IN  CASE url.t = "str" -> url
          [] url.t # "str" /\ raw.t \notin {"undefined", "null"} -> raw
          [] url.t # "str" /\ raw.t \in {"undefined", "null"}
                /\ host.t = "arr" /\ path.t = "arr" ->
                 [t |-> "str",
                  s |-> <<"h", "t", "t", "p", "s", ":", "/", "/">>
                            \o PartsJoined(host.items, <<".">>) \o <<"/">>
                            \o PartsJoined(path.items, <<"/">>)]
          [] OTHER -> [t |-> "str", s |-> <<>>]

\* C21: for a collection request extractTargetUrl gives the string url as it
\* is; otherwise url.raw when present; otherwise https:// + the host parts
\* joined by . + / + the path parts joined by / when host and path are both
\* arrays; otherwise the empty string.  The description returned carries it.
C21_UrlByPriority ==
    Done /\ contentRead /\ Extension = JSON_EXTENSION
        /\ Request.ok /\ Request.val.t = "obj" =>
            /\ extractTargetUrl(Request.val) = UrlByPriority
            /\ ReturnedDescription => result.value.targetUrl = UrlByPriority

\* a collection whose url has a null raw, a host and a path has been parsed
C21_Witness ==
    /\ Done
    /\ contentRead
    /\ Extension = JSON_EXTENSION
    /\ Request.ok
    /\ Request.val.t = "obj"
    /\ Has(Get(Request.val, sUrl), sRaw)
    /\ UrlMember(sHost).t = "arr"
    /\ UrlMember(sPath).t = "arr"
    /\ ReturnedDescription
    /\ result.value.targetUrl
           = Str(<<"h", "t", "t", "p", "s", ":", "/", "/", "a", ".", "b", "/",
                   "p", "/", "q">>)

------------------------------------------------------------------------------
(* convertToPascalCase as a state machine: generateResponseType names the   *)
(* root type, inferType names the type of a field that holds an object      *)

MaxNameLen == 3

NameCharacters == {"a", "B", "1", "_", " "}

\* the strings of at most n characters
RECURSIVE StringsUpTo(_, _)
StringsUpTo(characters, n) ==
    IF n = 0 THEN {<<>>}
    ELSE LET shorter == StringsUpTo(characters, n - 1)
         IN  shorter \cup {Append(s, c) : s \in shorter, c \in characters}

NameStrings ==
    StringsUpTo(NameCharacters, MaxNameLen)
        \cup { <<"a", "p", "i", "_", "r", "e", "s", "p", "o", "n", "s", "e">>,
               <<"f", "o", "o", " ", "b", "a", "r">>,
               <<"t", "e", "s", "t", "-", "c", "a", "s", "e">>,
               <<"U", "s", "e", "r", "R", "e", "s", "p", "o", "n", "s", "e">> }

KeyStrings ==
    StringsUpTo(NameCharacters, MaxNameLen - 1)
        \cup { <<"p", "r", "o", "f", "i", "l", "e">> }

InitNames ==
    /\ pc = "root"
    /\ CoreIdle
    /\ CliIdle
    /\ textToConvert \in NameStrings
    /\ pascalCase = Pending
    /\ parentType = Undef
    /\ fieldKey = Undef

\* generateResponseType, line 115: convertToPascalCase(rootName)
NameRoot ==
    /\ pc = "root"
    /\ pascalCase' = Returned(convertToPascalCase(textToConvert))
    /\ pc' = "named"
    /\ UNCHANGED <<coreVars, cliVars, textToConvert, parentType, fieldKey>>

\* inferType, line 147: convertToPascalCase(`${parentTypeName}_${key}`), the
\* parent's name being the one the call before returned
NameNested ==
    /\ pc = "named"
    /\ \E key \in KeyStrings :
           /\ fieldKey' = key
           /\ parentType' = pascalCase.value
           /\ textToConvert' = pascalCase.value \o <<"_">> \o key
           /\ pascalCase'
                  = Returned(convertToPascalCase(pascalCase.value
                                                     \o <<"_">> \o key))
    /\ pc' = "nested"
    /\ UNCHANGED <<coreVars, cliVars>>

NextNames == NameRoot \/ NameNested

SpecNames == InitNames /\ [][NextNames]_vars

\* the alphanumeric segments of a string, each with its first character in
\* upper case, one after the other
Segments(s) ==
    LET char(i) ==
            IF i = 1 \/ ~IsAlnum(s[i - 1]) THEN UpperChar(s[i]) ELSE s[i]
        pick(kept) == [m \in 1..Cardinality(kept) |-> char(Nth(kept, m))]
    IN  pick({i \in 1..Len(s) : IsAlnum(s[i])})

\* C22: convertToPascalCase gives for any string the concatenation of its
\* maximal alphanumeric segments, each with its first character upper-cased:
\* the result holds no white space and no other non-alphanumeric character,
\* also when the string begins or ends with non-alphanumeric characters.
C22_SegmentsConcatenated ==
    pc \in {"named", "nested"} =>
        /\ pascalCase.value = Segments(textToConvert)
        /\ \A i \in 1..Len(pascalCase.value) : IsAlnum(pascalCase.value[i])

\* C23: the name of a nested object type is the parent's type name followed
\* by the canonicalized field name:
\* convertToPascalCase(parent + '_' + key) = parent ++ convertToPascalCase(key)
\* for every parent type name and every field key.
C23_NestedNameIsParentPlusKey ==
    pc = "nested" =>
        /\ textToConvert = parentType \o <<"_">> \o fieldKey
        /\ pascalCase.value = parentType \o convertToPascalCase(fieldKey)

------------------------------------------------------------------------------
(* The text generateResponseType returns *)

------------------------------------------------------------------------------
(* The type-alias mode of generateResponseType: one alias for the response  *)
(* body, the fields typed without looking into them                         *)

sTypeKeyword == <<"t", "y", "p", "e", " ">>
sRecordType == <<"R", "e", "c", "o", "r", "d", "<", "s", "t", "r", "i", "n", "g", ",", " ", "a", "n", "y", ">">>

\* typeof value
TypeOf(value) ==
    CASE value.t = "undefined" -> <<"u", "n", "d", "e", "f", "i", "n", "e", "d">>
      [] value.t = "bool" -> sBooleanType
      [] value.t = "num" -> sNumberType
      [] value.t = "str" -> sStringType
      [] OTHER -> <<"o", "b", "j", "e", "c", "t">>

\* the body of the map callback of inferTopLevelType
TopLevelField(k, v) ==
    LET fieldType ==
            CASE v.t = "arr" -> sAnyArray
              [] v.t = "obj" -> sRecordType
              [] v.t = "str" -> sStringType
              [] v.t = "num" -> sNumberType
              [] v.t = "bool" -> sBooleanType
              [] v.t = "null" -> sNullType
              [] OTHER -> sAnyType
    IN  <<" ", " ">> \o k \o <<":", " ">> \o fieldType \o <<";">>

\* text.replace(/;$/, "")
WithoutLastSemicolon(text) ==
    IF text # <<>> /\ text[Len(text)] = ";"
    THEN SubSeq(text, 1, Len(text) - 1)
    ELSE text

RECURSIVE inferTopLevelType(_)
inferTopLevelType(obj) ==
    CASE obj.t = "arr" ->
             IF Len(obj.items) = 0 THEN sAnyArray
             ELSE IF obj.items[1].t \in {"obj", "arr"}
             THEN WithoutLastSemicolon(inferTopLevelType(obj.items[1]))
                      \o sBrackets
             ELSE TypeOf(obj.items[1]) \o sBrackets
      [] obj.t = "obj" ->
             <<"{", "\n">>
                 \o Join([n \in 1..Len(obj.fields) |->
                             TopLevelField(obj.fields[n][1], obj.fields[n][2])],
                         <<"\n">>)
                 \o <<"\n", "}">>
      [] OTHER -> TypeOf(obj)

\* a try block that takes objects only, as the interface mode does
TypeAliasOfObjectsOnly(apiResponse, name) ==
    IF apiResponse.responseBody.t # "obj"
    THEN Thrown("Error", "Response body must be a non-null object", <<>>)
    ELSE [ok |-> TRUE,
          val |-> sTypeKeyword \o name \o <<" ", "=", " ">>
                      \o inferTopLevelType(apiResponse.responseBody) \o <<";">>]

\* the try block of generateResponseType in this mode
TypeAlias(apiResponse, name) ==
    LET responseBody == apiResponse.responseBody
        alias(type) ==
            [ok |-> TRUE,
             val |-> sTypeKeyword \o name \o <<" ", "=", " ">> \o type \o <<";">>]
    IN  IF responseBody.t \in {"undefined", "null"}
        THEN Thrown("Error", "Response body must not be undefined or null.",
                    <<>>)
        ELSE CASE responseBody.t = "arr" -> alias(inferTopLevelType(responseBody))
               [] responseBody.t = "obj" -> alias(inferTopLevelType(responseBody))
               [] OTHER -> alias(TypeOf(responseBody))

\* arrays at the root, besides the bodies of the interface mode
RootArrays ==
    { Arr(<<Null>>),
      Arr(<<Str(<<"x">>), Num(1)>>),
      Arr(<<Bool(TRUE)>>),
      Arr(<<Obj(<<>>)>>),
      Arr(<<Obj(<< <<sAge, Num(1)>>, <<sProfile, Obj(<< <<sAge, Num(1)>> >>)>>,
                   <<sFlag, Arr(<<Num(1)>>)>> >>), Num(1)>>),
      Arr(<<Arr(<<>>)>>),
      Arr(<<Arr(<<Num(1)>>)>>),
      Arr(<<Arr(<<Obj(<< <<sProfile, Obj(<<>>)>> >>)>>)>>) }

InitAlias ==
    /\ pc = "aliasing"
    /\ filePath = <<>>
    /\ fileOnDisk = NotOnDisk
    /\ content = Undef
    /\ contentRead = FALSE
    /\ inspected = FALSE
    /\ result = Pending
    /\ \E b \in ResponseBodies \cup RootArrays :
           restCallResponse = [responseBody |-> b]
    /\ rootName \in RootNames
    /\ interfaceMap = <<>>
    /\ output = Pending
    /\ calls = <<>>
    /\ callParameters = Undef
    /\ network = Undef
    /\ requestsIssued = 0
    /\ callResult = Pending
    /\ programArguments = Undef
    /\ fileSystem = Undef
    /\ validationResults = <<>>
    /\ validationOutcome = Pending
    /\ MoreIdle

AliasReturns ==
    LET return(try) ==
            /\ try.ok
            /\ output' = Returned(try.val)
    IN  /\ pc = "aliasing"
        /\ return(TypeAlias(restCallResponse, rootName))
        /\ pc' = "aliased"
        /\ UNCHANGED <<filePath, fileOnDisk, content, contentRead, inspected,
                       result, restCallResponse, rootName, interfaceMap,
                       calls, apiVars, validationVars, moreVars>>

\* the catch block
AliasThrows ==
    /\ pc = "aliasing"
    /\ ~TypeAlias(restCallResponse, rootName).ok
    /\ output' = Threw(ResponseTypeGenerationError)
    /\ pc' = "aliased"
    /\ UNCHANGED <<filePath, fileOnDisk, content, contentRead, inspected,
                   result, restCallResponse, rootName, interfaceMap,
                   calls, apiVars, validationVars, moreVars>>

NextAlias ==
    \/ AliasReturns
    \/ AliasThrows

SpecAlias == InitAlias /\ [][NextAlias]_vars

Aliased == pc = "aliased"

\* the type of a value that is not looked into
LooseType(value) ==
    CASE value.t = "arr" -> <<"a", "n", "y", "[", "]">>
      [] value.t = "obj" -> <<"R", "e", "c", "o", "r", "d", "<", "s", "t", "r", "i", "n", "g", ",", " ", "a", "n", "y", ">">>
      [] value.t = "str" -> <<"s", "t", "r", "i", "n", "g">>
      [] value.t = "num" -> <<"n", "u", "m", "b", "e", "r">>
      [] value.t = "bool" -> <<"b", "o", "o", "l", "e", "a", "n">>
      [] value.t = "null" -> <<"n", "u", "l", "l">>
      [] OTHER -> <<"a", "n", "y">>

\* `{`, one line `  key: type;` for each field, `}`
RECURSIVE FieldList(_, _)
FieldList(fields, n) ==
    IF n > Len(fields) THEN <<"}">>
    ELSE <<" ", " ">> \o fields[n][1] \o <<":", " ">>
             \o LooseType(fields[n][2]) \o <<";", "\n">>
             \o FieldList(fields, n + 1)

\* the first element of the first element ... of an array, as long as it is
\* an object or an array, and the number of steps down to it
RECURSIVE Innermost(_)
Innermost(value) ==
    IF value.t = "arr" /\ Len(value.items) > 0
           /\ value.items[1].t \in {"obj", "arr"}
    THEN Innermost(value.items[1])
    ELSE value

RECURSIVE Depth(_)
Depth(value) ==
    IF value.t = "arr" /\ Len(value.items) > 0
           /\ value.items[1].t \in {"obj", "arr"}
    THEN 1 + Depth(value.items[1])
    ELSE 0

RECURSIVE Brackets(_)
Brackets(n) == IF n = 0 THEN <<>> ELSE <<"[", "]">> \o Brackets(n - 1)

\* the type of a value whose fields are listed
ListedType(value) ==
    CASE value.t = "obj" ->
             IF value.fields = <<>> THEN <<"{", "\n", "\n", "}">>
             ELSE <<"{", "\n">> \o FieldList(value.fields, 1)
      [] value.t = "arr" ->
             IF value.items = <<>> THEN <<"a", "n", "y", "[", "]">>
             ELSE TypeOf(value.items[1]) \o <<"[", "]">>
      [] OTHER -> TypeOf(value)

AliasText(type) ==
    <<"t", "y", "p", "e", " ">> \o rootName \o <<" ", "=", " ">> \o type
        \o <<";">>

\* the body is rejected exactly when it is undefined or null
RejectsOnlyMissing ==
    IF ResponseBody.t \in {"undefined", "null"}
    THEN output = Threw(ResponseTypeGenerationError)
    ELSE output.kind = "returned"

------------------------------------------------------------------------------
(* The Authorization header between the file and the description *)

\* the value the extractor takes for the Authorization header of the file
FileAuthorization ==
    LET pick(h) ==
            IF Has(h, sAuthorizationUpper)
                   /\ Get(h, sAuthorizationUpper).t \notin {"undefined", "null"}
            THEN Get(h, sAuthorizationUpper)
            ELSE Get(h, sAuthorizationLower)
    IN  pick(ExtractedHeaders)

\* a header of the file is missing in the description
AuthorizationRemoved ==
    \E key \in AuthorizationKeys :
        /\ Has(ExtractedHeaders, key)
        /\ ~Has(result.value.requestHeaders, key)

\* the word Bearer and the white space after it, in any case, lead the value
BearerWordLength(v) ==
    LET word == <<"b", "e", "a", "r", "e", "r">>
        spaces(n) == \A i \in 7..n : IsSpace(v[i])
    IN  IF Len(v) >= 7 /\ ToLowerCase(SubSeq(v, 1, 6)) = word /\ IsSpace(v[7])
        THEN Max({n \in 7..Len(v) : spaces(n)})
        ELSE 0

\* C28: in the .http and the cURL extractor the Authorization header is
\* removed from the header map if and only if the Bearer prefix was stripped
\* from its value to form authToken: whenever the header is removed,
\* authToken is the value without the leading word Bearer and the white space
\* after it.
C28_RemovedIffStripped ==
    LET stripped(v, token) ==
            /\ v.t = "str"
            /\ BearerWordLength(v.s) > 0
            /\ token = Str(SubSeq(v.s, BearerWordLength(v.s) + 1, Len(v.s)))
    IN  ReturnedDescription /\ Extension \in {HTTP_EXTENSION, TXT_EXTENSION}
            => (AuthorizationRemoved
                    <=> stripped(FileAuthorization, result.value.authToken))

-----------------------------------------------------------------------------
(* generateClientCode: the component file it builds and saves               *)

sTsx == <<".", "t", "s", "x">>
sTypeWord == <<"t", "y", "p", "e">>
sPromiseOf == <<"P", "r", "o", "m", "i", "s", "e", "<">>
sGeneratedApiComponentResponse ==
    <<"G", "e", "n", "e", "r", "a", "t", "e", "d", "A", "p", "i", "C", "o",
      "m", "p", "o", "n", "e", "n", "t", "R", "e", "s", "p", "o", "n", "s",
      "e">>
sHttpMethodName == <<"H", "T", "T", "P", "_", "M", "E", "T", "H", "O", "D">>
sApiParametersName == <<"a", "p", "i", "P", "a", "r", "a", "m", "e", "t", "e", "r", "s">>

\* the statement that declares HTTP_METHOD
sHttpMethodType ==
    <<"t", "y", "p", "e", " ", "H", "T", "T", "P", "_", "M", "E", "T", "H",
      "O", "D", " ", "=", " ", "\"", "G", "E", "T", "\"", " ", "|", " ",
      "\"", "P", "O", "S", "T", "\"", " ", "|", " ", "\"", "P", "U", "T",
      "\"", " ", "|", " ", "\"", "P", "A", "T", "C", "H", "\"", " ", "|",
      " ", "\"", "D", "E", "L", "E", "T", "E", "\"", " ", "|", " ", "\"",
      "O", "P", "T", "I", "O", "N", "S", "\"", " ", "|", " ", "\"", "H",
      "E", "A", "D", "\"", ";", "\n">>

staticTypedRequest ==
    <<"i", "n", "t", "e", "r", "f", "a", "c", "e", " ", "a", "p", "i", "P",
      "a", "r", "a", "m", "e", "t", "e", "r", "s", " ", "{", "\n", " ",
      " ", " ", " ", "t", "a", "r", "g", "e", "t", "U", "r", "l", ":", " ",
      "s", "t", "r", "i", "n", "g", ";", "\n", " ", " ", " ", " ", "h",
      "t", "t", "p", "M", "e", "t", "h", "o", "d", ":", " ", "H", "T", "T",
      "P", "_", "M", "E", "T", "H", "O", "D", ";", "\n", " ", " ", " ",
      " ", "a", "u", "t", "h", "T", "o", "k", "e", "n", "?", ":", " ", "s",
      "t", "r", "i", "n", "g", ";", "\n", " ", " ", " ", " ", "r", "e",
      "q", "u", "e", "s", "t", "H", "e", "a", "d", "e", "r", "s", "?", ":",
      " ", "R", "e", "c", "o", "r", "d", "<", "s", "t", "r", "i", "n", "g",
      ",", " ", "s", "t", "r", "i", "n", "g", ">", ";", "\n", " ", " ",
      " ", " ", "q", "u", "e", "r", "y", "P", "a", "r", "a", "m", "s", "?",
      ":", " ", "R", "e", "c", "o", "r", "d", "<", "s", "t", "r", "i", "n",
      "g", ",", " ", "s", "t", "r", "i", "n", "g", ">", ";", "\n", " ",
      " ", " ", " ", "r", "e", "q", "u", "e", "s", "t", "B", "o", "d", "y",
      "?", ":", " ", "o", "b", "j", "e", "c", "t", ";", "\n", "}", ";">>

ClientCodeGenerationError(path, message) ==
    [name |-> "ClientCodeGenerationError", filePath |-> path,
     message |-> message]

\* path.join(directory, name), for a directory without a trailing separator
PathJoin(directory, name) == directory \o <<"/">> \o name

\* /^[A-Za-z_][A-Za-z0-9_]*$/
IsTypeScriptIdentifier(s) ==
    /\ s # <<>>
    /\ IsLower(s[1]) \/ IsUpper(s[1]) \/ s[1] = "_"
    /\ \A i \in 2..Len(s) : IsAlnum(s[i]) \/ s[i] = "_"

\* /^type\s+([A-Za-z0-9_]+)\s*=/.exec(typedResponse.trim()): the captured
\* name, or Null when the text does not match
ResponseTypeMatch(typedResponse) ==
    LET text == Trim(typedResponse)
        IsWord(c) == IsAlnum(c) \/ c = "_"
        \* the first position from i on whose character is not of the class
        End(i, Class(_)) ==
            CHOOSE j \in i..(Len(text) + 1) :
                /\ \A k \in i..(j - 1) : Class(text[k])
                /\ j = Len(text) + 1 \/ ~Class(text[j])
        match(nameStart) ==
            LET nameEnd == End(nameStart, IsWord)
                equals == End(nameEnd, IsSpace)
            IN  IF /\ nameStart > 5
                   /\ nameEnd > nameStart
                   /\ equals <= Len(text)
                   /\ text[equals] = "="
                THEN Str(SubSeq(text, nameStart, nameEnd - 1))
                ELSE Null
    IN  IF StartsWith(text, sTypeWord) THEN match(End(5, IsSpace)) ELSE Null

\* lines 342-345
ResponseTypeName(typedResponse) ==
    LET named(responseTypeMatch) ==
            IF Truthy(responseTypeMatch) THEN responseTypeMatch.s
            ELSE sGeneratedApiComponentResponse
    IN  named(ResponseTypeMatch(typedResponse))

\* the statements addTypeDefinitions adds to the source file
addTypeDefinitions(typedResponse, typedRequest) ==
    <<sHttpMethodType, typedRequest, <<>>, typedResponse, <<>>>>

\* the function addApiCall adds to the source file
addApiCall(responseTypeName) ==
    [name |-> "fetchData",
     parameterType |-> sApiParametersName,
     returnType |-> sPromiseOf \o responseTypeName \o <<">">>]

\* the function addReactComponent adds to the source file
addReactComponent(componentName, requestUsed) ==
    [name |-> componentName, apiRequest |-> requestUsed]

\* generateClientCode: the file it saves and the result it resolves with, or
\* the ClientCodeGenerationError its catch block throws; saveRefused says
\* whether project.save() fails
generateClientCode(typedResponse, typedRequest, requestUsed, componentName, outputDir, saveRefused) ==
    LET target == PathJoin(outputDir, componentName \o sTsx)
        sourceFile ==
            [filePath |-> target,
             statements |-> addTypeDefinitions(typedResponse, typedRequest),
             fetchData |-> addApiCall(ResponseTypeName(typedResponse)),
             component |-> addReactComponent(componentName, requestUsed)]
        catch(message) ==
            [ok |-> FALSE,
             err |-> ClientCodeGenerationError(
                         PathJoin(outputDir, componentName), message)]
    IN  IF ~IsTypeScriptIdentifier(componentName)
        THEN catch("Invalid componentName: must be a valid TypeScript identifier string.")
        ELSE IF saveRefused
        THEN catch("EACCES: permission denied")
        ELSE [ok |-> TRUE,
              file |-> sourceFile,
              val |-> [success |-> TRUE, filePath |-> target,
                       componentName |-> componentName]]

-----------------------------------------------------------------------------
(* cli.ts: main as a state machine. It calls validateProgramArguments,      *)
(* parseProvidedFile, callSuppliedApi, generateResponseType and, unless the *)
(* run is a dry run, generateClientCode; its catch block prints and exits.  *)

sResponseSuffix == <<"R", "e", "s", "p", "o", "n", "s", "e">>

StageOrder == <<"validate", "parse", "call", "infer", "emit">>

CliNames ==
    { <<"U", "s", "e", "r">>,
      <<"A", "p", "i">>,
      <<"G", "e", "n", "e", "r", "a", "t", "e", "d", "A", "p", "i", "C",
        "o", "m", "p", "o", "n", "e", "n", "t">>,
      <<"U", "_", "1", "$">>,
      <<" ", "U", "s", "e", "r", " ">>,
      <<"u", "s", "e", "r">> }

CliOutputDirectories == { <<"o", "u", "t">>, <<"o", "<">> }

\* the request files of the runs: the path and what the disk holds there
CliFiles ==
    { <<<<"f", ".", "h", "t", "t", "p">>, OnDisk(<<"G", "E", "T", " ", "h", "t", "t", "p", "/", "x", "\n", "A", "u",
          "t", "h", "o", "r", "i", "z", "a", "t", "i", "o", "n", ":", " ",
          "B", "a", "s", "i", "c", " ", "c">>)>>,
      <<<<"f", ".", "h", "t", "t", "p">>, OnDisk(<<"G", "E", "T", " ", "h", "t", "t", "p", "/", "x", "\n", "A", "u",
          "t", "h", "o", "r", "i", "z", "a", "t", "i", "o", "n", ":", " ",
          "B", "e", "a", "r", "e", "r", " ", "t">>)>>,
      <<<<"f", ".", "h", "t", "t", "p">>, OnDisk(<<"G", "E", "T">>)>>,
      <<<<"f", ".", "h", "t", "t", "p">>, NotOnDisk>>,
      <<<<"f", ".", "t", "x", "t">>, OnDisk(<<"c", "u", "r", "l", " ", "h", "t", "t", "p", "/", "x", " ", "-",
          "H", " ", "'", "A", "u", "t", "h", "o", "r", "i", "z", "a", "t",
          "i", "o", "n", ":", " ", "B", "a", "s", "i", "c", " ", "c", "'">>)>>,
      <<<<"f", ".", "j", "s", "o", "n">>, OnDisk(<<"{", "\"", "u", "r", "l", "\"", ":", "\"", "h", "t", "t", "p",
          "/", "x", "\"", "}">>)>>,
      <<<<"f", ".", "x", "y", "z">>, OnDisk(<<"x">>)>> }

\* what the network does with the request of the run
CliNetworkOutcomes ==
    { Answer(200, <<"O", "K">>, Obj(<< <<(<<"a">>), Num(1)>> >>)),
      Answer(200, <<"O", "K">>,
             Obj(<< <<(<<"p">>), Obj(<< <<(<<"a">>), Num(1)>> >>)>> >>)),
      Answer(200, <<"O", "K">>, Arr(<<Num(1)>>)),
      Answer(404, <<>>, Obj(<<>>)),
      NoAnswer }

\* main is called: the options are parsed and the paths resolved. The file
\* system is looked at twice, by the validation and by the read, and the
\* file may have changed in between.
InitCli ==
    /\ pc = "main"
    /\ \E f \in CliFiles : filePath = f[1] /\ fileOnDisk = f[2]
    /\ content = Undef
    /\ contentRead = FALSE
    /\ inspected = FALSE
    /\ result = Pending
    /\ restCallResponse = [responseBody |-> Undef]
    /\ rootName = <<>>
    /\ interfaceMap = <<>>
    /\ output = Pending
    /\ calls = <<>>
    /\ callParameters = Undef
    /\ network \in CliNetworkOutcomes
    /\ requestsIssued = 0
    /\ callResult = Pending
    /\ programArguments = Undef
    /\ fileSystem \in FileSystems
    /\ validationResults = <<>>
    /\ validationOutcome = Pending
    /\ NamesIdle
    /\ cliOptions \in [name : CliNames, output : CliOutputDirectories,
                       dryRun : BOOLEAN]
    /\ saveFails \in BOOLEAN
    /\ stages = <<>>
    /\ caught = Undef
    /\ printed = <<>>
    /\ written = Undef
    /\ exitCode = Undef

\* lines 57-61: validateProgramArguments is called
MainValidates ==
    /\ pc = "main"
    /\ programArguments' = [filePath |-> Str(filePath),
                            outputDirectory |-> Str(cliOptions.output),
                            componentName |-> Str(cliOptions.name)]
    /\ stages' = Append(stages, "validate")
    /\ pc' = "validating"
    /\ UNCHANGED <<filePath, fileOnDisk, content, contentRead, inspected,
                   result, restCallResponse, rootName, interfaceMap, output,
                   calls, apiVars, fileSystem, validationResults,
                   validationOutcome, nameVars, cliOptions, saveFails,
                   caught, printed, written, exitCode>>

\* line 63: parseProvidedFile is called
MainParses ==
    /\ pc = "validated"
    /\ validationOutcome.kind = "returned"
    /\ stages' = Append(stages, "parse")
    /\ pc' = "called"
    /\ UNCHANGED <<filePath, fileOnDisk, content, contentRead, inspected,
                   result, restCallResponse, rootName, interfaceMap, output,
                   calls, apiVars, validationVars, nameVars, cliOptions,
                   saveFails, caught, printed, written, exitCode>>

\* line 64: callSuppliedApi is called with the parsed request
MainCalls ==
    /\ pc = "done"
    /\ result.kind = "resolved"
    /\ callParameters' = result.value
    /\ stages' = Append(stages, "call")
    /\ pc' = "calling"
    /\ UNCHANGED <<filePath, fileOnDisk, content, contentRead, inspected,
                   result, restCallResponse, rootName, interfaceMap, output,
                   calls, network, requestsIssued, callResult,
                   validationVars, nameVars, cliOptions, saveFails, caught,
                   printed, written, exitCode>>

\* lines 65-68: generateResponseType is called with the response
MainInfers ==
    /\ pc = "settled"
    /\ callResult.kind = "resolved"
    /\ restCallResponse' = callResult.value.response
    /\ rootName' = cliOptions.name \o sResponseSuffix
    /\ stages' = Append(stages, "infer")
    /\ pc' = "generating"
    /\ UNCHANGED <<filePath, fileOnDisk, content, contentRead, inspected,
                   result, interfaceMap, output, calls, apiVars,
                   validationVars, nameVars, cliOptions, saveFails, caught,
                   printed, written, exitCode>>

\* lines 70-78: a dry run prints what would be generated and main returns
MainDryRun ==
    /\ pc = "generated"
    /\ output.kind = "returned"
    /\ cliOptions.dryRun
    /\ exitCode' = 0
    /\ pc' = "exited"
    /\ UNCHANGED <<coreVars, nameVars, cliOptions, saveFails, stages, caught,
                   printed, written>>

\* an exit of the catch block that reports success
CatchOfMainExitsClean(error) ==
    [printed |-> <<[prefix |-> "Error: ", message |-> error]>>,
     exitCode |-> 0]

\* lines 90-121: what the catch block of main prints with console.error and
\* the exit code the process ends with. A ValidationError without the
\* failingValidations member makes the block itself throw a TypeError: main
\* rejects, nothing handles the rejection, and the runtime ends the process
\* with exit code 1.
CatchOfMain(error) ==
    IF error.name \in {"FileParseError", "ApiCallError",
                       "ResponseTypeGenerationError",
                       "ClientCodeGenerationError"}
    THEN [printed |-> <<[prefix |-> "Error: ", message |-> error]>>,
          exitCode |-> 1]
    ELSE IF error.name = "ValidationError"
    THEN IF "failingValidations" \in DOMAIN error
         THEN [printed |->
                   <<[prefix |-> "",
                      message |->
                          "Validation failed with the following issues:"]>>
                   \o [i \in 1..Len(error.failingValidations) |->
                          [prefix |-> "- ",
                           message |->
                               error.failingValidations[i].errorMessage]],
               exitCode |-> 1]
         ELSE [printed |-> <<>>, exitCode |-> 1]
    ELSE [printed |-> <<[prefix |-> "Unexpected error: ",
                         message |-> error]>>,
          exitCode |-> 1]

\* the error a stage of main has thrown and main has not caught yet
StageError ==
    IF pc = "validated" /\ validationOutcome.kind = "threw"
    THEN validationOutcome.error
    ELSE IF pc = "done" /\ result.kind = "rejected" THEN result.error
    ELSE IF pc = "settled" /\ callResult.kind = "rejected"
    THEN callResult.error
    ELSE IF pc = "generated" /\ output.kind = "threw" THEN output.error
    ELSE Undef

\* the catch block after a stage before the emission has thrown
MainCatches ==
    LET exit(error, handled) ==
            /\ error # Undef
            /\ caught' = error
            /\ printed' = handled.printed
            /\ exitCode' = handled.exitCode
    IN  /\ pc \in {"validated", "done", "settled", "generated"}
        /\ exit(StageError, CatchOfMain(StageError))
        /\ pc' = "exited"
        /\ UNCHANGED <<coreVars, nameVars, cliOptions, saveFails, stages,
                       written>>

\* what generateClientCode does in this run
Emission ==
    generateClientCode(output.value, staticTypedRequest, callParameters,
                       cliOptions.name, cliOptions.output, saveFails)

\* lines 79-89: generateClientCode saves the file and main returns
MainEmits ==
    LET return(emission) ==
            /\ emission.ok
            /\ written' = emission.file
    IN  /\ pc = "generated"
        /\ output.kind = "returned"
        /\ ~cliOptions.dryRun
        /\ return(Emission)
        /\ stages' = Append(stages, "emit")
        /\ exitCode' = 0
        /\ pc' = "exited"
        /\ UNCHANGED <<coreVars, nameVars, cliOptions, saveFails, caught,
                       printed>>

\* lines 79-89 and the catch block: generateClientCode throws
MainEmitFails ==
    LET exit(emission, handled) ==
            /\ ~emission.ok
            /\ caught' = emission.err
            /\ printed' = handled.printed
            /\ exitCode' = handled.exitCode
    IN  /\ pc = "generated"
        /\ output.kind = "returned"
        /\ ~cliOptions.dryRun
        /\ exit(Emission,
                IF Emission.ok THEN Undef ELSE CatchOfMain(Emission.err))
        /\ stages' = Append(stages, "emit")
        /\ pc' = "exited"
        /\ UNCHANGED <<coreVars, nameVars, cliOptions, saveFails, written>>

NextCli ==
    \/ MainValidates
    \/ ValidateReturns
    \/ ValidateThrows
    \/ MainParses
    \/ ReadFile
    \/ ReadFileFails
    \/ CaseHttp
    \/ CaseTxt
    \/ CaseJson
    \/ CaseDefault
    \/ MainCalls
    \/ CallAxios
    \/ AxiosResolves
    \/ AxiosRejects
    \/ MainInfers
    \/ GenerateReturns
    \/ GenerateThrows
    \/ MainDryRun
    \/ MainEmits
    \/ MainEmitFails
    \/ MainCatches

SpecCli == InitCli /\ [][NextCli]_vars

\* a stage the run has started has failed
ValidateFailed == validationOutcome.kind = "threw"
ParseFailed == result.kind = "rejected"
CallFailed == callResult.kind = "rejected"
InferFailed == output.kind = "threw"
EmitFailed ==
    /\ caught # Undef
    /\ caught.name = "ClientCodeGenerationError"

StageFailed ==
    ValidateFailed \/ ParseFailed \/ CallFailed \/ InferFailed \/ EmitFailed

\* the stages are started in the fixed order, each at most once, and the
\* stage that failed is the last one started
StagesInOrder ==
    /\ Len(stages) <= Len(StageOrder)
    /\ stages = SubSeq(StageOrder, 1, Len(stages))
    /\ ValidateFailed => Len(stages) = 1
    /\ ParseFailed => Len(stages) = 2
    /\ CallFailed => Len(stages) = 3
    /\ InferFailed => Len(stages) = 4
    /\ EmitFailed => Len(stages) = 5
    /\ requestsIssued <= 1

\* the file is written only after four successes and outside a dry run
WrittenOnlyAfterSuccess ==
    written # Undef =>
        /\ stages = StageOrder
        /\ ~cliOptions.dryRun
        /\ validationOutcome.kind = "returned"
        /\ result.kind = "resolved"
        /\ callResult.kind = "resolved"
        /\ output.kind = "returned"
        /\ requestsIssued = 1
        /\ exitCode = 0

\* a dry run that came through has called the API and written nothing
DryRunCallsAndWritesNothing ==
    cliOptions.dryRun =>
        /\ written = Undef
        /\ pc = "exited" /\ ~StageFailed =>
               /\ requestsIssued = 1
               /\ stages = SubSeq(StageOrder, 1, 4)
               /\ exitCode = 0

\* a run that ended after a failure has exit code 1 and wrote nothing
FailureExitsWithOne ==
    pc = "exited" =>
        /\ StageFailed <=> exitCode = 1
        /\ StageFailed <=> caught # Undef
        /\ StageFailed => written = Undef
        /\ exitCode \in {0, 1}

\* after a failure the only step of the run is the end of the process: no
\* stage is started and no request is issued
FailureIsTerminal ==
    StageFailed =>
        /\ pc' = "exited"
        /\ exitCode' = 1
        /\ stages' = stages
        /\ requestsIssued' = requestsIssued
        /\ written' = written

\* C29: in every run of the CLI the stages are started in the order
\* validate, parse, call, infer, emit; the component file is written only
\* when the four earlier stages succeeded and the run is not a dry run; a
\* dry run still calls the API and writes no file; a failure of a stage ends
\* the run with exit code 1, with no later stage and no second attempt.
C29_StagesInOrderFailureEndsRun ==
    /\ [](/\ StagesInOrder
          /\ WrittenOnlyAfterSuccess
          /\ DryRunCallsAndWritesNothing
          /\ FailureExitsWithOne)
    /\ [][FailureIsTerminal]_vars

\* a run whose API call met a 404 has ended with exit code 1 after three
\* stages and one request
C29_Witness ==
    /\ pc = "exited"
    /\ CallFailed
    /\ network.kind = "response"
    /\ network.status = 404
    /\ stages = <<"validate", "parse", "call">>
    /\ requestsIssued = 1
    /\ written = Undef
    /\ exitCode = 1

\* a dry run has ended with exit code 0 after the API call, with no file
C29_WitnessDryRun ==
    /\ pc = "exited"
    /\ cliOptions.dryRun
    /\ requestsIssued = 1
    /\ stages = <<"validate", "parse", "call", "infer">>
    /\ written = Undef
    /\ exitCode = 0

\* a run has written the component file after five stages
C29_WitnessWritten ==
    /\ pc = "exited"
    /\ written # Undef
    /\ stages = StageOrder
    /\ exitCode = 0

\* the type names declared by the statements of the file written: the two
\* fixed ones and the interfaces of the inferred response
DeclaredTypes ==
    {sHttpMethodName, sApiParametersName}
        \cup {interfaceMap[i][1] : i \in 1..Len(interfaceMap)}

\* the root type generateResponseType has generated in this run: the last
\* record of its map
InferredRootType == interfaceMap[Len(interfaceMap)][1]

\* the T of the Promise<T> that fetchData is declared to return
ReturnedTypeName ==
    SubSeq(written.fetchData.returnType, Len(sPromiseOf) + 1,
           Len(written.fetchData.returnType) - 1)

\* C26: in the file written by the pipeline of generateResponseType and
\* generateClientCode, the declared return type of fetchData is a Promise
\* of the root type inferred in this run, which is a type the same file
\* declares, whatever valid component name the run was given.
C26_FetchDataReturnsRootType ==
    written # Undef =>
        /\ written.statements[4] = output.value
        /\ ReturnedTypeName = InferredRootType
        /\ ReturnedTypeName \in DeclaredTypes

\* the file of the run gives an Authorization header of a scheme other than
\* bearer
NonBearerInFile ==
    /\ Extension \in {HTTP_EXTENSION, TXT_EXTENSION}
    /\ FileAuthorization.t = "str"
    /\ ~StartsWith(ToLowerCase(FileAuthorization.s),
                   <<"b", "e", "a", "r", "e", "r">>)

\* C27: when the .http or cURL file of the run gives an Authorization header
\* of a non-bearer scheme, the Authorization header of the request that
\* callSuppliedApi issues for the parsed description is the value written in
\* the file.
C27_NonBearerHeaderSentAsWritten ==
    requestsIssued = 1 /\ NonBearerInFile =>
        Get(RequestConfig(callParameters).headers, sAuthorizationUpper)
            = FileAuthorization

\* the run has ended after validateProgramArguments threw
ValidationEndedRun ==
    /\ pc = "exited"
    /\ ValidateFailed

\* C30: when validateProgramArguments throws, the ValidationError caught by
\* main carries failingValidations, the results with isValid = false in the
\* order file exists, file readable, output path, component name; main
\* prints one message line for each of them and the run ends with exit
\* code 1.
C30_FailingValidationsPrinted ==
    LET failing == FailingValidations(validationResults)
        messageLines == SelectSeq(printed, LAMBDA l : l.prefix = "- ")
    IN  ValidationEndedRun =>
            /\ validationResults
                   = ValidationResults(programArguments, fileSystem)
            /\ "failingValidations" \in DOMAIN caught
            /\ caught.failingValidations = failing
            /\ messageLines
                   = [i \in 1..Len(failing) |->
                         [prefix |-> "- ",
                          message |-> failing[i].errorMessage]]
            /\ exitCode = 1

====
